---- MODULE Spec2Model ----
(***************************************************************************)
(* Command orchestration core of the calendar voice backend:               *)
(* routes/voiceRoutes.js (/command, /stream, /widget, /execute), the       *)
(* aggregating calendar service and the interaction logger.                *)
(*                                                                         *)
(* One request is handled at a time (the server keeps no state across      *)
(* requests); every await of a handler is a step of the model.  Times are  *)
(* minutes, optional JSON fields are sequences of length 0 or 1, strings   *)
(* that are inspected character by character are sequences of characters.  *)
(***************************************************************************)
EXTENDS Integers, Sequences, FiniteSets, TLC

\* ------------------------------------------------------------------ bounds
\* most tool calls one resolver response carries
MaxToolCalls == 2
\* most times one /execute request is submitted again unchanged
MaxReplays == 3

\* ------------------------------------------------------- optional values
None == <<>>
Some(x) == <<x>>
Val(o) == o[1]
\* JavaScript truthiness of an optional field (no empty strings in the model)
Truthy(o) == o # None

\* ------------------------------------------------------------ tool names
ReadTools == {"list_calendar_events", "list_tasks"}
MutatingTools == {"create_calendar_event", "update_calendar_event", "delete_calendar_event",
                  "create_task", "update_task", "delete_task"}
ToolNames == ReadTools \cup MutatingTools
\* the mutation methods of the aggregating calendar service
MutationFns == {"createEvent", "updateEvent", "deleteEvent", "createTask", "updateTask", "deleteTask"}
ReadFns == {"getEvents", "getTasks"}

\* ---------------------------------------------------------------- emails
GoodEmail == <<"a", "@", "x", ".", "c">>
NoAtEmail == <<"a", "b", "x", ".", "c">>
NoDotEmail == <<"a", "@", "x", "y", "c">>
ShortEmail == <<"@", ".", "c">>

Includes(s, c) == \E i \in 1..Len(s) : s[i] = c

\* the filter predicate used on attendees (an attendee is [email |-> optional])
InvalidEmail(attendee) ==
  \/ ~Truthy(attendee.email)
  \/ ~Includes(Val(attendee.email), "@")
  \/ ~Includes(Val(attendee.email), ".")
  \/ Len(Val(attendee.email)) < 5

AnyInvalidEmail(attendees) == \E i \in 1..Len(attendees) : InvalidEmail(attendees[i])

Att(e) == [email |-> Some(e)]
AttendeeOptions ==
  { None, Some(<<>>), Some(<<Att(GoodEmail)>>), Some(<<Att(NoAtEmail)>>),
    Some(<<Att(NoDotEmail)>>), Some(<<Att(ShortEmail)>>), Some(<<[email |-> None]>>),
    Some(<<Att(GoodEmail), Att(NoAtEmail)>>) }

\* ----------------------------------------------------------------- times
DefaultDurationMinutes == 30
\* 10:00, in minutes
T0 == 10 * 60
NowSet == {595, 600}
\* now.setHours(now.getHours() + 1, 0, 0, 0)
NextHour(now) == ((now \div 60) + 1) * 60
\* parseInt(duration) || 30, guarded by if (duration)
DurationMinutes(duration) ==
  IF Truthy(duration) /\ Val(duration) # 0 THEN Val(duration) ELSE DefaultDurationMinutes

\* smart defaults of create_calendar_event: [startTime, endTime] as optionals
DefaultStart(startTime, now) == IF ~Truthy(startTime) THEN Some(NextHour(now)) ELSE startTime
DefaultEnd(startTime, endTime, duration) ==
  IF ~Truthy(endTime) /\ Truthy(startTime)
  THEN Some(Val(startTime) + DurationMinutes(duration))
  ELSE endTime

\* ------------------------------------------------- tool-call arguments
\* one record shape for the arguments of every tool; fields a tool does not
\* use are None.  calendar is "google", "outlook" or "none" (absent).
BaseArgs == [calendar |-> "google", attendees |-> None, startTime |-> None, endTime |-> None,
             duration |-> None, summary |-> None, description |-> None, targetId |-> None]

Calendars == {"google", "outlook"}

CreateEventArgs ==
  { [BaseArgs EXCEPT !.calendar = c, !.summary = Some("s"), !.startTime = Some(T0), !.attendees = a] :
      c \in Calendars, a \in AttendeeOptions }
  \cup
  { [BaseArgs EXCEPT !.calendar = c, !.summary = Some("s"), !.attendees = Some(<<Att(GoodEmail)>>),
                     !.startTime = st, !.endTime = en, !.duration = d] :
      c \in Calendars, st \in {None, Some(T0)}, en \in {None, Some(T0 + 60)},
      d \in {None, Some(0), Some(45)} }
  \cup
  \* an end time before the start time, as the resolver or the caller may send
  { [BaseArgs EXCEPT !.summary = Some("s"), !.attendees = Some(<<Att(GoodEmail)>>),
                     !.startTime = Some(T0), !.endTime = Some(T0 - 30)] }

UpdateEventArgs ==
  { [BaseArgs EXCEPT !.calendar = c, !.targetId = id, !.startTime = st, !.summary = su, !.attendees = a] :
      c \in Calendars, id \in {None, Some("e1")}, st \in {None, Some(T0)},
      su \in {None, Some("s")}, a \in {None, Some(<<Att(NoAtEmail)>>)} }

TargetArgs(id) ==
  { [BaseArgs EXCEPT !.calendar = c, !.targetId = i] : c \in Calendars \cup {"none"}, i \in {None, Some(id)} }

ListArgs == { [BaseArgs EXCEPT !.calendar = c] : c \in Calendars }

ArgsOf(name) ==
  CASE name = "create_calendar_event" -> CreateEventArgs
    [] name = "update_calendar_event" -> UpdateEventArgs
    [] name = "delete_calendar_event" -> TargetArgs("e1")
    [] name = "create_task" -> ListArgs
    [] name \in {"update_task", "delete_task"} -> TargetArgs("t1")
    [] OTHER -> ListArgs

\* ------------------------------------------------------ request inputs
\* req.googleToken, req.outlookToken, req.primaryCalendar
CredentialSets ==
  { [google |-> TRUE, outlook |-> FALSE, primary |-> "google"],
    [google |-> FALSE, outlook |-> TRUE, primary |-> "outlook"],
    [google |-> TRUE, outlook |-> TRUE, primary |-> "google"],
    [google |-> TRUE, outlook |-> TRUE, primary |-> "outlook"] }

\* the action of an /execute body: the preview, possibly edited by the caller
ActionTypes == MutatingTools \cup {"list_tasks"}
ExecuteActions ==
  { None } \cup
  { Some([type |-> n, args |-> a]) : n \in {"list_tasks"}, a \in ListArgs } \cup
  UNION { { Some([type |-> n, args |-> a]) : a \in ArgsOf(n) } : n \in MutatingTools }

Endpoints == {"command", "stream", "widget", "execute"}
InputKinds == {"audio", "audio_too_large", "text", "none"}

\* ------------------------------------------------------------ outputs
\* an outbound call, a frame written or a response sent, in program order
CallWith(fn, target, why, data) == [ev |-> "call", fn |-> fn, target |-> target, why |-> why, data |-> data]
Call(fn, target, why) == CallWith(fn, target, why, None)
Wrote(type) == [ev |-> "frame", fn |-> type, target |-> "client", why |-> "", data |-> None]
Sent == [ev |-> "json", fn |-> "json", target |-> "client", why |-> "", data |-> None]
Ended == [ev |-> "end", fn |-> "end", target |-> "client", why |-> "", data |-> None]

\* a JSON response; absent flags are FALSE, absent objects None
Json(status, success) ==
  [status |-> status, success |-> success, needsConfirmation |-> FALSE, needsClarification |-> FALSE,
   executed |-> FALSE, cancelled |-> FALSE, action |-> None, history |-> None]

\* an SSE frame
Frame(type) ==
  [type |-> type, needsConfirmation |-> FALSE, needsClarification |-> FALSE,
   executed |-> FALSE, action |-> None, result |-> None]

VARIABLES
  pc,        \* position of the handler of the request being served
  req,       \* the request: endpoint, input, credentials, history, action, confirmed
  history,   \* conversationHistory of the handler
  llm,       \* the resolver response being acted on
  attempts,  \* resolver invocations made by this request
  acted,     \* the tool calls this request acted on: executed, previewed or clarified
  preview,   \* actionPreview under construction (optional)
  frames,    \* SSE frames written by this request
  closed,    \* res.end() was called
  resp,      \* JSON response sent (optional)
  trace,     \* calls, frames and responses of this request, in program order
  nreq,      \* number of times the current request was submitted
  mutTotal,  \* mutation methods invoked over all submissions of it
  svcIn,     \* a call of a service or helper function taken by itself: its inputs
  svcOut,    \* the result of that call (optional)
  degraded,  \* the best-effort steps of this request that failed
  store,     \* the event a provider stores, while adapter calls on it run
  upd,       \* the updateEvent calls of an adapter in flight on that event
  clock,     \* the day new Date() falls on
  limits,    \* the user's stored limits document (optional)
  mw,        \* the requests passing through authAndRateLimit
  admitted   \* for each day, the rate-checked requests of the user let through for it

vars == <<pc, req, history, llm, attempts, acted, preview, frames, closed, resp, trace, nreq, mutTotal,
          svcIn, svcOut, degraded, store, upd, clock, limits, mw, admitted>>

\* ------------------------------------------------------------ counting
IsMutationCall(e) == e.ev = "call" /\ e.fn \in MutationFns
CountMutations(s) == Cardinality({i \in 1..Len(s) : IsMutationCall(s[i]) /\ s[i].target = "service"})
ProviderMutations(s) == Cardinality({i \in 1..Len(s) : IsMutationCall(s[i]) /\ s[i].target \in Calendars})

\* --------------------------------------------- aggregating calendar service
TokenFor(calendar, creds) == IF calendar = "outlook" THEN creds.outlook ELSE creds.google

\* the selector is ignored: every mutation goes to the Google adapter
ProviderOf_Google(calendar) == "google"

\* if (primaryCalendar === 'outlook') the Outlook adapter, else the Google one
ProviderOf(calendar) == IF calendar = "outlook" THEN "outlook" ELSE "google"

\* the service method retries: the call is issued twice
ServiceMutation_Retry(fn, calendar, creds, data) ==
  <<CallWith(fn, "service", "mutation", data), CallWith(fn, "service", "mutation", data)>>

\* createEvent, updateEvent, deleteEvent, createTask, updateTask, deleteTask: the
\* call of the service method, then the one adapter it routes to when the
\* credential of the selected provider is present
ServiceMutation(fn, calendar, creds, data) ==
  IF ~TokenFor(calendar, creds)
  THEN <<CallWith(fn, "service", "mutation", data)>>
  ELSE <<CallWith(fn, "service", "mutation", data), CallWith(fn, ProviderOf(calendar), "mutation", data)>>

\* getEvents: the adapters queried depend on the credentials present only
ServiceGetEvents(creds, why) ==
  <<Call("getEvents", "service", why)>> \o
  (IF creds.google /\ creds.outlook
   THEN <<Call("getEvents", "google", why), Call("getEvents", "outlook", why),
          Call("getTasks", "google", why), Call("getTasks", "outlook", why)>>
   ELSE (IF creds.google THEN <<Call("getEvents", "google", why), Call("getTasks", "google", why)>> ELSE <<>>) \o
        (IF creds.outlook THEN <<Call("getEvents", "outlook", why), Call("getTasks", "outlook", why)>> ELSE <<>>))

ServiceGetTasks(creds, why) ==
  <<Call("getTasks", "service", why)>> \o
  (IF creds.google THEN <<Call("getTasks", "google", why)>> ELSE <<>>) \o
  (IF creds.outlook THEN <<Call("getTasks", "outlook", why)>> ELSE <<>>)

\* ------------------------------------------------------ interaction log
\* the failure of logUserEvent is thrown again instead of swallowed
RecordInteractionLog_Rethrow(actionType, hasEmail, dbFails) ==
  [calls |-> <<Call("recordInteractionLog", "logger", actionType)>> \o
             (IF hasEmail THEN <<CallWith("logUserEvent", "postgres", actionType, Some([failed |-> dbFails]))>>
              ELSE <<>>),
   threw |-> hasEmail /\ dbFails]

\* recordInteractionLog: skips without an email, swallows every failure of
\* logUserEvent (the call records whether it failed); threw tells whether an
\* exception reaches the caller
RecordInteractionLog(actionType, hasEmail, dbFails) ==
  [calls |-> <<Call("recordInteractionLog", "logger", actionType)>> \o
             (IF hasEmail THEN <<CallWith("logUserEvent", "postgres", actionType, Some([failed |-> dbFails]))>>
              ELSE <<>>),
   threw |-> FALSE]

\* ------------------------------------------------------------- /execute
\* the cancel branch is never taken
IsCancelled_Never(confirmed) == FALSE

\* if (!confirmed)
IsCancelled(confirmed) == ~confirmed

EventData(args, startTime, endTime) ==
  Some([startTime |-> startTime, endTime |-> endTime, attendees |-> args.attendees])

\* the switch on action.type: status 200 with the calls made, or the status
\* of the rejection (400 validation, 500 exception caught by the handler)
ExecuteDispatch(a, creds, now) ==
  LET args == a.args
      reject(status) == [status |-> status, calls |-> <<>>]
      run(calls) == [status |-> 200, calls |-> calls]
  IN CASE a.type = "create_calendar_event" ->
            IF ~Truthy(args.attendees) THEN reject(500)
            ELSE IF AnyInvalidEmail(Val(args.attendees)) THEN reject(400)
            ELSE LET st == DefaultStart(args.startTime, now)
                     en == DefaultEnd(st, args.endTime, args.duration)
                 IN run(ServiceMutation("createEvent", args.calendar, creds, EventData(args, st, en)))
       [] a.type = "update_calendar_event" ->
            IF ~(Truthy(args.summary) \/ Truthy(args.startTime) \/ Truthy(args.endTime)
                 \/ Truthy(args.description) \/ Truthy(args.attendees))
            THEN reject(400)
            ELSE IF Truthy(args.attendees) /\ AnyInvalidEmail(Val(args.attendees)) THEN reject(400)
            ELSE run(ServiceMutation("updateEvent", args.calendar, creds,
                                     EventData(args, args.startTime, args.endTime)))
       [] a.type = "delete_calendar_event" -> run(ServiceMutation("deleteEvent", args.calendar, creds, None))
       [] a.type = "create_task" -> run(ServiceMutation("createTask", args.calendar, creds, None))
       [] a.type = "update_task" -> run(ServiceMutation("updateTask", args.calendar, creds, None))
       [] a.type = "delete_task" -> run(ServiceMutation("deleteTask", args.calendar, creds, None))

\* the whole handler of POST /execute: the response and the calls it made
ExecuteHandler(action, confirmed, creds, now, adapterOk, hasEmail, dbFails) ==
  IF ~Truthy(action) THEN [resp |-> Json(400, FALSE), calls |-> <<>>]
  ELSE IF IsCancelled(confirmed)
  THEN LET log == RecordInteractionLog("cancel", hasEmail, dbFails)
       IN IF log.threw THEN [resp |-> Json(500, FALSE), calls |-> log.calls]
          ELSE [resp |-> [Json(200, TRUE) EXCEPT !.cancelled = TRUE], calls |-> log.calls]
  ELSE IF Val(action).type \notin MutatingTools THEN [resp |-> Json(400, FALSE), calls |-> <<>>]
  ELSE LET d == ExecuteDispatch(Val(action), creds, now)
           ok == adapterOk /\ TokenFor(Val(action).args.calendar, creds)
           log == RecordInteractionLog("approve", hasEmail, dbFails)
       IN IF d.status # 200 THEN [resp |-> Json(d.status, FALSE), calls |-> <<>>]
          ELSE IF ~ok THEN [resp |-> Json(500, FALSE), calls |-> d.calls]
          ELSE IF log.threw THEN [resp |-> Json(500, FALSE), calls |-> d.calls \o log.calls]
          ELSE [resp |-> Json(200, TRUE), calls |-> d.calls \o log.calls]

\* ------------------------------------------------------------ requests
NoLlm == [success |-> FALSE, toolCalls |-> <<>>]

Fresh ==
  /\ history' = <<>>
  /\ llm' = NoLlm
  /\ attempts' = 0
  /\ acted' = <<>>
  /\ preview' = None
  /\ frames' = <<>>
  /\ closed' = FALSE
  /\ resp' = None
  /\ trace' = <<>>
  /\ degraded' = {}

Init ==
  /\ pc = "idle"
  /\ req = [endpoint |-> "execute", input |-> "none", creds |-> CHOOSE c \in CredentialSets : TRUE,
            history |-> <<>>, action |-> None, confirmed |-> FALSE]
  /\ history = <<>>
  /\ llm = NoLlm
  /\ attempts = 0
  /\ acted = <<>>
  /\ preview = None
  /\ frames = <<>>
  /\ closed = FALSE
  /\ resp = None
  /\ trace = <<>>
  /\ nreq = 0
  /\ mutTotal = 0
  /\ svcIn = [op |-> "none"]
  /\ svcOut = None
  /\ degraded = {}
  /\ store = None
  /\ upd = <<>>
  /\ clock = 1
  /\ limits = None
  /\ mw = <<>>
  /\ admitted = <<>>

\* a new /execute request arrives: action and confirmed are the caller's
ReceiveExecute ==
  /\ pc = "idle"
  /\ \E c \in CredentialSets, a \in ExecuteActions, cf \in BOOLEAN :
       req' = [endpoint |-> "execute", input |-> "none", creds |-> c,
               history |-> <<>>, action |-> a, confirmed |-> cf]
  /\ pc' = "start"
  /\ nreq' = 1
  /\ mutTotal' = 0
  /\ Fresh
  /\ UNCHANGED <<svcIn, svcOut, store, upd, clock, limits, mw, admitted>>

\* the caller submits the /execute request it sent before once more, unchanged
Replay ==
  /\ pc = "done"
  /\ req.endpoint = "execute"
  /\ nreq < MaxReplays
  /\ pc' = "start"
  /\ nreq' = nreq + 1
  /\ Fresh
  /\ UNCHANGED <<req, mutTotal>>
  /\ UNCHANGED <<svcIn, svcOut, store, upd, clock, limits, mw, admitted>>

\* POST /execute
Execute ==
  /\ pc = "start"
  /\ req.endpoint = "execute"
  /\ \E now \in NowSet, adapterOk \in BOOLEAN, hasEmail \in BOOLEAN, dbFails \in BOOLEAN :
       LET out == ExecuteHandler(req.action, req.confirmed, req.creds, now, adapterOk, hasEmail, dbFails)
       IN /\ resp' = Some(out.resp)
          /\ trace' = trace \o out.calls \o <<Sent>>
          /\ mutTotal' = mutTotal + CountMutations(out.calls)
  /\ pc' = "done"
  /\ UNCHANGED <<req, history, llm, attempts, acted, preview, frames, closed, nreq>>
  /\ UNCHANGED <<svcIn, svcOut, degraded, store, upd, clock, limits, mw, admitted>>

\* the connection of a served request goes away; the server keeps nothing
Finish ==
  /\ pc = "done"
  /\ pc' = "idle"
  /\ nreq' = 0
  /\ mutTotal' = 0
  /\ Fresh
  /\ UNCHANGED req
  /\ UNCHANGED <<svcIn, svcOut, store, upd, clock, limits, mw, admitted>>

\* ------------------------------------------------- conversation history
Turn(role, toolCalls, toolCallId, status) ==
  [role |-> role, toolCalls |-> toolCalls, toolCallId |-> toolCallId, status |-> status]
UserTurn == Turn("user", <<>>, 0, "")
AssistantMessage == Turn("assistant", <<>>, 0, "")
\* {role: 'assistant', content: null, tool_calls: <all tool calls of the response>}
AssistantToolCalls(toolCalls) == Turn("assistant", [i \in 1..Len(toolCalls) |-> toolCalls[i].id], 0, "")
ToolTurn(id, status) == Turn("tool", <<>>, id, status)

CallerHistories == { <<>>, <<UserTurn, AssistantMessage>> }

\* ------------------------------------------------------------- resolver
\* processWithLLM: {success: false, error} or {success: true, message, toolCalls}
ToolId(round, position) == 10 * round + position
ToolCall(name, id, args) == [name |-> name, id |-> id, args |-> args, wellFormed |-> TRUE]
\* a tool call whose arguments are not JSON
MalformedCall(id) == [ToolCall("delete_task", id, BaseArgs) EXCEPT !.wellFormed = FALSE]
FirstCalls(round) ==
  UNION { { ToolCall(n, ToolId(round, 1), a) : a \in ArgsOf(n) } : n \in ToolNames }
  \cup { MalformedCall(ToolId(round, 1)) }
ExtraCalls(round, n) ==
  [i \in 1..n |-> ToolCall("delete_calendar_event", ToolId(round, i + 1),
                           [BaseArgs EXCEPT !.targetId = Some("e2")])]
Responses(round) ==
  { [success |-> FALSE, toolCalls |-> <<>>], [success |-> TRUE, toolCalls |-> <<>>] }
  \cup { [success |-> TRUE, toolCalls |-> <<f>> \o ExtraCalls(round, n)] :
           f \in FirstCalls(round), n \in 0..(MaxToolCalls - 1) }

\* the last tool call is taken instead of the first
FirstToolCall_Last(toolCalls) == toolCalls[Len(toolCalls)]

\* const toolCall = llmResponse.toolCalls[0]
FirstToolCall(toolCalls) == toolCalls[1]
HasToolCalls(r) == Len(r.toolCalls) > 0

\* executeTool: the switch on the tool name
ExecuteTool(toolCall, creds) ==
  LET args == toolCall.args
      m(fn) == ServiceMutation(fn, args.calendar, creds, None)
  IN CASE toolCall.name = "list_calendar_events" -> ServiceGetEvents(creds, "tool")
       [] toolCall.name = "list_tasks" -> ServiceGetTasks(creds, "tool")
       [] toolCall.name = "create_calendar_event" -> m("createEvent")
       [] toolCall.name = "update_calendar_event" -> m("updateEvent")
       [] toolCall.name = "delete_calendar_event" -> m("deleteEvent")
       [] toolCall.name = "create_task" -> m("createTask")
       [] toolCall.name = "update_task" -> m("updateTask")
       [] toolCall.name = "delete_task" -> m("deleteTask")
       [] OTHER -> <<>>

\* ------------------------------------------------------ preview building
Preview(type, args, eventDetails, taskDetails, conflict) ==
  [type |-> type, args |-> args, eventDetails |-> eventDetails,
   taskDetails |-> taskDetails, conflict |-> conflict]

\* !params.attendees || length === 0, then the invalidEmails filter
CreateNeedsClarification(args) ==
  \/ ~Truthy(args.attendees)
  \/ Len(Val(args.attendees)) = 0
  \/ AnyInvalidEmail(Val(args.attendees))

\* smart defaults applied to the preview of create_calendar_event
WithDefaults(args, now) ==
  LET st == DefaultStart(args.startTime, now)
  IN [args EXCEPT !.startTime = st, !.endTime = DefaultEnd(st, args.endTime, args.duration)]

NoFetch == [calls |-> <<>>, details |-> None]
IsEventTarget(name, args) ==
  name \in {"delete_calendar_event", "update_calendar_event"} /\ Truthy(args.targetId)
IsTaskTarget(name, args) == name \in {"delete_task", "update_task"} /\ Truthy(args.targetId)

\* /stream: details of the event, fetched from the provider req.primaryCalendar names
StreamEventDetails(name, args, creds, found) ==
  IF ~IsEventTarget(name, args) THEN NoFetch
  ELSE IF creds.primary = "outlook"
  THEN [calls |-> <<Call("fetch", "graph", "details")>>, details |-> IF found THEN Some("outlook") ELSE None]
  ELSE [calls |-> <<Call("events.get", "googleApi", "details")>>, details |-> IF found THEN Some("google") ELSE None]

\* /command and /widget: always through the Google client
GoogleEventDetails(name, args, creds, found) ==
  IF ~IsEventTarget(name, args) THEN NoFetch
  ELSE [calls |-> <<Call("events.get", "googleApi", "details")>>, details |-> IF found THEN Some("google") ELSE None]

\* /stream: details of the task, looked up in getTasks
StreamTaskDetails(name, args, creds, found) ==
  IF ~IsTaskTarget(name, args) THEN NoFetch
  ELSE [calls |-> ServiceGetTasks(creds, "details"), details |-> IF found THEN Some("task") ELSE None]

\* checkMeetingConflict: the credential of the other provider is dropped
CheckMeetingConflict(creds, calendar, hit) ==
  LET c == [creds EXCEPT !.outlook = IF calendar = "google" THEN FALSE ELSE @,
                         !.google = IF calendar = "outlook" THEN FALSE ELSE @]
  IN [calls |-> ServiceGetEvents(c, "conflict"), details |-> IF hit THEN Some("busy") ELSE None]

\* /stream: the conflict check for create, and for update when a time is given
StreamConflict(name, params, previewArgs, creds, hit) ==
  IF name = "create_calendar_event"
     \/ (name = "update_calendar_event" /\ (Truthy(params.startTime) \/ Truthy(params.endTime)))
  THEN IF Truthy(previewArgs.startTime) /\ Truthy(previewArgs.endTime)
       THEN CheckMeetingConflict(creds, IF params.calendar # "none" THEN params.calendar ELSE creds.primary, hit)
       ELSE NoFetch
  ELSE NoFetch

\* ------------------------------------------------------- writing output
Emit(calls, fs, end) ==
  /\ frames' = frames \o fs
  /\ closed' = (closed \/ end)
  /\ trace' = trace \o calls \o [i \in 1..Len(fs) |-> Wrote(fs[i].type)]
                    \o (IF end THEN <<Ended>> ELSE <<>>)
  /\ resp' = resp

Reply(calls, r) ==
  /\ resp' = Some(r)
  /\ trace' = trace \o calls \o <<Sent>>
  /\ pc' = "done"
  /\ UNCHANGED <<frames, closed>>

Working(calls) ==
  /\ trace' = trace \o calls
  /\ UNCHANGED <<frames, closed, resp>>

ErrorFrame == Frame("error")
\* the type of the interaction logged by the tail of a /stream request
LogType == IF acted = <<>> THEN "ask_to_clarify" ELSE acted[Len(acted)].name
Acted(toolCall, how) == [id |-> toolCall.id, name |-> toolCall.name, how |-> how]

\* --------------------------------------------------- dialogue requests
ReceiveDialogue ==
  /\ pc = "idle"
  /\ \E e \in {"command", "stream", "widget"}, i \in InputKinds, c \in CredentialSets, h \in CallerHistories :
       req' = [endpoint |-> e, input |-> i, creds |-> c, history |-> h, action |-> None, confirmed |-> FALSE]
  /\ pc' = "start"
  /\ nreq' = 1
  /\ mutTotal' = 0
  /\ Fresh
  /\ UNCHANGED <<svcIn, svcOut, store, upd, clock, limits, mw, admitted>>

Tc == FirstToolCall(llm.toolCalls)
Acting(endpoint) ==
  /\ pc = "act"
  /\ req.endpoint = endpoint
  /\ llm.success
  /\ HasToolCalls(llm)
  /\ Tc.wellFormed

\* ---------------------------------------------------------------- /stream
\* create_task is taken for a read-only tool
StreamIsRead_Broad(name) == name \in {"list_calendar_events", "list_tasks", "create_task"}

\* name === 'list_calendar_events' || name === 'list_tasks'
StreamIsRead(name) == name \in {"list_calendar_events", "list_tasks"}
\* the six names that make the second resolution a chained mutating action
StreamChains(name) ==
  name \in {"create_calendar_event", "delete_calendar_event", "update_calendar_event",
            "create_task", "delete_task", "update_task"}

\* step 1 of /stream: size check, transcription or text
StreamInput ==
  /\ pc = "start"
  /\ req.endpoint = "stream"
  /\ history' = req.history
  /\ \/ /\ req.input = "audio_too_large"
        /\ Emit(<<>>, <<Frame("response")>>, TRUE)
        /\ pc' = "done"
     \/ /\ req.input = "audio"
        /\ \E t \in {"ok", "failed", "threw"} :
             IF t = "ok"
             THEN Emit(<<Call("transcribeAudio", "whisper", "input")>>, <<Frame("transcription")>>, FALSE)
                  /\ pc' = "context"
             ELSE Emit(<<Call("transcribeAudio", "whisper", "input")>>, <<ErrorFrame>>, TRUE)
                  /\ pc' = "done"
     \/ /\ req.input = "text"
        /\ Emit(<<>>, <<>>, FALSE)
        /\ pc' = "context"
     \/ /\ req.input = "none"
        /\ Emit(<<>>, <<ErrorFrame>>, TRUE)
        /\ pc' = "done"
  /\ UNCHANGED <<req, llm, attempts, acted, preview, nreq, mutTotal>>
  /\ UNCHANGED <<svcIn, svcOut, degraded, store, upd, clock, limits, mw, admitted>>

\* the answer of the catch of the handler
Fail(calls) ==
  IF req.endpoint = "stream"
  THEN Emit(calls, <<ErrorFrame>>, TRUE) /\ pc' = "done"
  ELSE Reply(calls, Json(500, FALSE))

\* reading the fetched events into the context succeeds or throws
ContextOutcomes == {"ok", "threw"}

\* the exception leaves the try block of the context fetch
TryContext_Uncaught(outcome) == [threw |-> outcome = "threw"]

\* try { ... } catch (error) { console.error(...) } around the context fetch:
\* nothing reaches the handler
TryContext(outcome) == [threw |-> FALSE]

\* a best-effort step of the preview failed: it is noted when a step was made
Noted(fails, calls) == IF fails /\ calls # <<>> THEN degraded \cup {"preview"} ELSE degraded

\* /command and /stream: today's agenda, awaited
FetchContextToday ==
  /\ pc = "context"
  /\ req.endpoint \in {"command", "stream"}
  /\ \E outcome \in ContextOutcomes :
       LET calls == ServiceGetEvents(req.creds, "context_today")
       IN /\ degraded' = (IF outcome = "ok" THEN degraded ELSE degraded \cup {"context"})
          /\ IF TryContext(outcome).threw THEN Fail(calls)
             ELSE Working(calls) /\ pc' = (IF outcome = "ok" THEN "context2" ELSE "resolve")
  /\ UNCHANGED <<req, history, llm, attempts, acted, preview, nreq, mutTotal>>
  /\ UNCHANGED <<svcIn, svcOut, store, upd, clock, limits, mw, admitted>>

\* /command and /stream: the recent-contacts lookback, awaited after the agenda
FetchContextRecent ==
  /\ pc = "context2"
  /\ req.endpoint \in {"command", "stream"}
  /\ \E outcome \in ContextOutcomes :
       LET calls == ServiceGetEvents(req.creds, "context_recent")
       IN /\ degraded' = (IF outcome = "ok" THEN degraded ELSE degraded \cup {"context"})
          /\ IF TryContext(outcome).threw THEN Fail(calls)
             ELSE Working(calls) /\ pc' = "resolve"
  /\ UNCHANGED <<req, history, llm, attempts, acted, preview, nreq, mutTotal>>
  /\ UNCHANGED <<svcIn, svcOut, store, upd, clock, limits, mw, admitted>>

\* /command and /stream: the user turn is pushed and the resolver invoked
Resolve ==
  /\ pc = "resolve"
  /\ req.endpoint \in {"command", "stream"}
  /\ history' = Append(history, UserTurn)
  /\ attempts' = attempts + 1
  /\ \E r \in Responses(attempts + 1) : llm' = r
  /\ Working(<<Call("processWithLLM", "llm", "first")>>)
  /\ pc' = "act"
  /\ UNCHANGED <<req, acted, preview, nreq, mutTotal>>
  /\ UNCHANGED <<svcIn, svcOut, degraded, store, upd, clock, limits, mw, admitted>>

\* if (!llmResponse.success)
StreamResolveFailed ==
  /\ pc = "act"
  /\ req.endpoint = "stream"
  /\ ~llm.success
  /\ Emit(<<>>, <<ErrorFrame>>, TRUE)
  /\ pc' = "done"
  /\ UNCHANGED <<req, history, llm, attempts, acted, preview, nreq, mutTotal>>
  /\ UNCHANGED <<svcIn, svcOut, degraded, store, upd, clock, limits, mw, admitted>>

\* JSON.parse of the arguments throws: the catch of the handler answers
StreamParseError ==
  /\ pc \in {"act", "chain"}
  /\ req.endpoint = "stream"
  /\ llm.success
  /\ HasToolCalls(llm)
  /\ ~Tc.wellFormed
  /\ Emit(<<>>, <<ErrorFrame>>, TRUE)
  /\ pc' = "done"
  /\ UNCHANGED <<req, history, llm, attempts, acted, preview, nreq, mutTotal>>
  /\ UNCHANGED <<svcIn, svcOut, degraded, store, upd, clock, limits, mw, admitted>>

\* no tool call: the message of the resolver is the answer
StreamClarify ==
  /\ pc = "act"
  /\ req.endpoint = "stream"
  /\ llm.success
  /\ ~HasToolCalls(llm)
  /\ history' = Append(history, AssistantMessage)
  /\ Emit(<<>>, <<[Frame("response") EXCEPT !.needsClarification = TRUE]>>, FALSE)
  /\ pc' = "log"
  /\ UNCHANGED <<req, llm, attempts, acted, preview, nreq, mutTotal>>
  /\ UNCHANGED <<svcIn, svcOut, degraded, store, upd, clock, limits, mw, admitted>>

\* read-only tool: executed at once, its result appended to the history
StreamExecRead ==
  /\ Acting("stream")
  /\ StreamIsRead(Tc.name)
  /\ LET calls == ExecuteTool(Tc, req.creds)
     IN /\ Working(calls)
        /\ mutTotal' = mutTotal + CountMutations(calls)
  /\ history' = history \o <<AssistantToolCalls(llm.toolCalls), ToolTurn(Tc.id, "result")>>
  /\ acted' = Append(acted, Acted(Tc, "executed"))
  /\ pc' = "resolve2"
  /\ UNCHANGED <<req, llm, attempts, preview, nreq>>
  /\ UNCHANGED <<svcIn, svcOut, degraded, store, upd, clock, limits, mw, admitted>>

\* the resolver is invoked again on the enriched history; a mutating tool
\* call chains into its confirmation, anything else surfaces the list result
StreamResolveAgain ==
  /\ pc = "resolve2"
  /\ req.endpoint = "stream"
  /\ attempts' = attempts + 1
  /\ \E r \in Responses(attempts + 1) :
       /\ llm' = r
       /\ IF HasToolCalls(r) /\ StreamChains(FirstToolCall(r.toolCalls).name)
          THEN /\ history' = Append(history, AssistantToolCalls(r.toolCalls))
               /\ Emit(<<Call("processWithLLM", "llm", "second")>>, <<>>, FALSE)
               /\ pc' = "chain"
          ELSE /\ history' = history
               /\ Emit(<<Call("processWithLLM", "llm", "second")>>,
                       <<[Frame("response") EXCEPT !.executed = TRUE, !.result = Some("toolResult")]>>, FALSE)
               /\ pc' = "log"
  /\ UNCHANGED <<req, acted, preview, nreq, mutTotal>>
  /\ UNCHANGED <<svcIn, svcOut, degraded, store, upd, clock, limits, mw, admitted>>

\* the chained mutating action: details, conflict check, confirmation frame
StreamPreviewChained ==
  /\ pc = "chain"
  /\ req.endpoint = "stream"
  /\ Tc.wellFormed
  /\ history' = Append(history, ToolTurn(Tc.id, "pending_confirmation"))
  /\ \E found \in BOOLEAN, taskFound \in BOOLEAN, hit \in BOOLEAN, fails \in BOOLEAN :
       LET ed == StreamEventDetails(Tc.name, Tc.args, req.creds, found /\ ~fails)
           td == StreamTaskDetails(Tc.name, Tc.args, req.creds, taskFound /\ ~fails)
           cf == StreamConflict(Tc.name, Tc.args, Tc.args, req.creds, hit /\ ~fails)
           p == Preview(Tc.name, Tc.args, ed.details, td.details, cf.details)
       IN /\ preview' = Some(p)
          /\ degraded' = Noted(fails, ed.calls \o td.calls \o cf.calls)
          /\ Emit(ed.calls \o td.calls \o cf.calls,
                  <<[Frame("response") EXCEPT !.needsConfirmation = TRUE, !.action = Some(p)]>>, FALSE)
  /\ acted' = Append(acted, Acted(Tc, "previewed"))
  /\ pc' = "log"
  /\ UNCHANGED <<req, llm, attempts, nreq, mutTotal>>
  /\ UNCHANGED <<svcIn, svcOut, store, upd, clock, limits, mw, admitted>>

\* the mutating action of the first resolution: validation and smart defaults
\* of create_calendar_event, details, conflict check, confirmation frame
StreamPreview ==
  /\ Acting("stream")
  /\ ~StreamIsRead(Tc.name)
  /\ history' = history \o <<AssistantToolCalls(llm.toolCalls), ToolTurn(Tc.id, "pending_confirmation")>>
  /\ IF Tc.name = "create_calendar_event" /\ CreateNeedsClarification(Tc.args)
     THEN /\ Emit(<<>>, <<[Frame("response") EXCEPT !.needsClarification = TRUE]>>, TRUE)
          /\ acted' = Append(acted, Acted(Tc, "clarified"))
          /\ preview' = preview
          /\ degraded' = degraded
          /\ pc' = "done"
     ELSE /\ \E now \in NowSet, found \in BOOLEAN, taskFound \in BOOLEAN, hit \in BOOLEAN, fails \in BOOLEAN :
               LET pargs == IF Tc.name = "create_calendar_event" THEN WithDefaults(Tc.args, now) ELSE Tc.args
                   ed == StreamEventDetails(Tc.name, Tc.args, req.creds, found /\ ~fails)
                   td == StreamTaskDetails(Tc.name, Tc.args, req.creds, taskFound /\ ~fails)
                   cf == StreamConflict(Tc.name, Tc.args, pargs, req.creds, hit /\ ~fails)
                   p == Preview(Tc.name, pargs, ed.details, td.details, cf.details)
               IN /\ preview' = Some(p)
                  /\ degraded' = Noted(fails, ed.calls \o td.calls \o cf.calls)
                  /\ Emit(ed.calls \o td.calls \o cf.calls,
                          <<[Frame("response") EXCEPT !.needsConfirmation = TRUE, !.action = Some(p)]>>, FALSE)
          /\ acted' = Append(acted, Acted(Tc, "previewed"))
          /\ pc' = "log"
  /\ UNCHANGED <<req, llm, attempts, nreq, mutTotal>>
  /\ UNCHANGED <<svcIn, svcOut, store, upd, clock, limits, mw, admitted>>

\* the tail of the handler: the interaction is logged, then res.end();
\* an exception here reaches the catch, which writes an error frame
StreamLog ==
  /\ pc = "log"
  /\ req.endpoint = "stream"
  /\ \E hasEmail \in BOOLEAN, dbFails \in BOOLEAN :
       LET log == RecordInteractionLog(LogType, hasEmail, dbFails)
       IN IF log.threw
          THEN Emit(log.calls, <<ErrorFrame>>, TRUE)
          ELSE Emit(log.calls, <<>>, TRUE)
  /\ pc' = "done"
  /\ UNCHANGED <<req, history, llm, attempts, acted, preview, nreq, mutTotal>>
  /\ UNCHANGED <<svcIn, svcOut, degraded, store, upd, clock, limits, mw, admitted>>

\* --------------------------------------------------------------- /command
\* if (name === 'list_calendar_events')
CommandIsRead(name) == name = "list_calendar_events"

\* size check, transcription or text
CommandInput ==
  /\ pc = "start"
  /\ req.endpoint = "command"
  /\ history' = req.history
  /\ \/ /\ req.input = "audio_too_large"
        /\ Reply(<<>>, Json(200, TRUE))
     \/ /\ req.input = "audio"
        /\ \E t \in {"ok", "failed", "threw"} :
             IF t = "ok"
             THEN Working(<<Call("transcribeAudio", "whisper", "input")>>) /\ pc' = "context"
             ELSE Reply(<<Call("transcribeAudio", "whisper", "input")>>, Json(500, FALSE))
     \/ /\ req.input = "text"
        /\ Working(<<>>)
        /\ pc' = "context"
     \/ /\ req.input = "none"
        /\ Reply(<<>>, Json(400, FALSE))
  /\ UNCHANGED <<req, llm, attempts, acted, preview, nreq, mutTotal>>
  /\ UNCHANGED <<svcIn, svcOut, degraded, store, upd, clock, limits, mw, admitted>>

\* if (!llmResponse.success) return res.status(500).json(llmResponse)
CommandResolveFailed ==
  /\ pc = "act"
  /\ req.endpoint = "command"
  /\ ~llm.success
  /\ Reply(<<>>, Json(500, FALSE))
  /\ UNCHANGED <<req, history, llm, attempts, acted, preview, nreq, mutTotal>>
  /\ UNCHANGED <<svcIn, svcOut, degraded, store, upd, clock, limits, mw, admitted>>

\* JSON.parse of the arguments throws: the catch of the handler answers
CommandParseError ==
  /\ pc = "act"
  /\ req.endpoint = "command"
  /\ llm.success
  /\ HasToolCalls(llm)
  /\ ~Tc.wellFormed
  /\ Reply(<<>>, Json(500, FALSE))
  /\ UNCHANGED <<req, history, llm, attempts, acted, preview, nreq, mutTotal>>
  /\ UNCHANGED <<svcIn, svcOut, degraded, store, upd, clock, limits, mw, admitted>>

\* no tool call: logged, then answered with the message of the resolver
CommandClarify ==
  /\ pc = "act"
  /\ req.endpoint = "command"
  /\ llm.success
  /\ ~HasToolCalls(llm)
  /\ history' = Append(history, AssistantMessage)
  /\ \E hasEmail \in BOOLEAN, dbFails \in BOOLEAN :
       LET log == RecordInteractionLog("ask_to_clarify", hasEmail, dbFails)
       IN IF log.threw THEN Reply(log.calls, Json(500, FALSE))
          ELSE Reply(log.calls, [Json(200, TRUE) EXCEPT !.needsClarification = TRUE,
                                                        !.history = Some(history')])
  /\ UNCHANGED <<req, llm, attempts, acted, preview, nreq, mutTotal>>
  /\ UNCHANGED <<svcIn, svcOut, degraded, store, upd, clock, limits, mw, admitted>>

\* list_calendar_events: executed at once, its result appended to the history
CommandExecRead ==
  /\ Acting("command")
  /\ CommandIsRead(Tc.name)
  /\ LET calls == ExecuteTool(Tc, req.creds)
     IN /\ Working(calls)
        /\ mutTotal' = mutTotal + CountMutations(calls)
  /\ history' = history \o <<AssistantToolCalls(llm.toolCalls), ToolTurn(Tc.id, "result")>>
  /\ acted' = Append(acted, Acted(Tc, "executed"))
  /\ pc' = "resolve2"
  /\ UNCHANGED <<req, llm, attempts, preview, nreq>>
  /\ UNCHANGED <<svcIn, svcOut, degraded, store, upd, clock, limits, mw, admitted>>

\* the resolver is invoked again for the summary; only its message is used
CommandResolveAgain ==
  /\ pc = "resolve2"
  /\ req.endpoint = "command"
  /\ attempts' = attempts + 1
  /\ \E r \in Responses(attempts + 1) : llm' = r
  /\ \E hasEmail \in BOOLEAN, dbFails \in BOOLEAN :
       LET log == RecordInteractionLog(LogType, hasEmail, dbFails)
           calls == <<Call("processWithLLM", "llm", "second")>> \o log.calls
       IN IF log.threw THEN Reply(calls, Json(500, FALSE))
          ELSE Reply(calls, [Json(200, TRUE) EXCEPT !.executed = TRUE, !.history = Some(history)])
  /\ UNCHANGED <<req, history, acted, preview, nreq, mutTotal>>
  /\ UNCHANGED <<svcIn, svcOut, degraded, store, upd, clock, limits, mw, admitted>>

\* every other tool name: validation and smart defaults of
\* create_calendar_event, details through the Google client, confirmation
CommandPreview ==
  /\ Acting("command")
  /\ ~CommandIsRead(Tc.name)
  /\ history' = history \o <<AssistantToolCalls(llm.toolCalls), ToolTurn(Tc.id, "pending_confirmation")>>
  /\ IF Tc.name = "create_calendar_event" /\ CreateNeedsClarification(Tc.args)
     THEN /\ Reply(<<>>, [Json(200, TRUE) EXCEPT !.needsClarification = TRUE, !.history = Some(history')])
          /\ acted' = Append(acted, Acted(Tc, "clarified"))
          /\ preview' = preview
          /\ degraded' = degraded
     ELSE /\ \E now \in NowSet, found \in BOOLEAN, fails \in BOOLEAN, hasEmail \in BOOLEAN, dbFails \in BOOLEAN :
               LET pargs == IF Tc.name = "create_calendar_event" THEN WithDefaults(Tc.args, now) ELSE Tc.args
                   ed == GoogleEventDetails(Tc.name, Tc.args, req.creds, found /\ ~fails)
                   p == Preview(Tc.name, pargs, ed.details, None, None)
                   log == RecordInteractionLog(Tc.name, hasEmail, dbFails)
               IN /\ preview' = Some(p)
                  /\ degraded' = Noted(fails, ed.calls)
                  /\ IF log.threw THEN Reply(ed.calls \o log.calls, Json(500, FALSE))
                     ELSE Reply(ed.calls \o log.calls,
                                [Json(200, TRUE) EXCEPT !.needsConfirmation = TRUE, !.action = Some(p),
                                                        !.history = Some(history')])
          /\ acted' = Append(acted, Acted(Tc, "previewed"))
  /\ UNCHANGED <<req, llm, attempts, nreq, mutTotal>>
  /\ UNCHANGED <<svcIn, svcOut, store, upd, clock, limits, mw, admitted>>

\* ---------------------------------------------------------------- /widget
\* const maxAttempts = 3
WidgetMaxAttempts == 3
WidgetIsMutating(name) ==
  name \in {"create_calendar_event", "delete_calendar_event", "update_calendar_event",
            "create_task", "delete_task", "update_task"}
WidgetIsRead(name) == name \in {"list_calendar_events", "list_tasks"}
\* {success: true, needsConfirmation: null}
WidgetNothing == Json(200, TRUE)

\* transcription (no size check) or text; the user turn is pushed
WidgetInput ==
  /\ pc = "start"
  /\ req.endpoint = "widget"
  /\ \/ /\ req.input \in {"audio", "audio_too_large"}
        /\ \E t \in {"ok", "failed", "threw"} :
             IF t = "ok"
             THEN Working(<<Call("transcribeAudio", "whisper", "input")>>) /\ pc' = "loop"
             ELSE Reply(<<Call("transcribeAudio", "whisper", "input")>>, Json(500, FALSE))
        /\ history' = Append(req.history, UserTurn)
     \/ /\ req.input = "text"
        /\ Working(<<>>)
        /\ pc' = "loop"
        /\ history' = Append(req.history, UserTurn)
     \/ /\ req.input = "none"
        /\ Reply(<<>>, Json(400, FALSE))
        /\ history' = req.history
  /\ UNCHANGED <<req, llm, attempts, acted, preview, nreq, mutTotal>>
  /\ UNCHANGED <<svcIn, svcOut, degraded, store, upd, clock, limits, mw, admitted>>

\* the loop goes round once more than maxAttempts allows
LoopContinues_OneMore(n) == n <= WidgetMaxAttempts

\* the condition of while (attempts < maxAttempts)
LoopContinues(n) == n < WidgetMaxAttempts

\* while (attempts < maxAttempts): one invocation of the resolver
WidgetResolve ==
  /\ pc = "loop"
  /\ req.endpoint = "widget"
  /\ LoopContinues(attempts)
  /\ attempts' = attempts + 1
  /\ \E r \in Responses(attempts + 1) : llm' = r
  /\ Working(<<Call("processWithLLM", "llm", "widget")>>)
  /\ pc' = "act"
  /\ UNCHANGED <<req, history, acted, preview, nreq, mutTotal>>
  /\ UNCHANGED <<svcIn, svcOut, degraded, store, upd, clock, limits, mw, admitted>>

\* the loop ran out of attempts
WidgetGiveUp ==
  /\ pc = "loop"
  /\ req.endpoint = "widget"
  /\ ~LoopContinues(attempts)
  /\ Reply(<<>>, WidgetNothing)
  /\ UNCHANGED <<req, history, llm, attempts, acted, preview, nreq, mutTotal>>
  /\ UNCHANGED <<svcIn, svcOut, degraded, store, upd, clock, limits, mw, admitted>>

\* no tool calls (a failed resolution has none either): break
WidgetNoTool ==
  /\ pc = "act"
  /\ req.endpoint = "widget"
  /\ ~HasToolCalls(llm)
  /\ Reply(<<>>, WidgetNothing)
  /\ UNCHANGED <<req, history, llm, attempts, acted, preview, nreq, mutTotal>>
  /\ UNCHANGED <<svcIn, svcOut, degraded, store, upd, clock, limits, mw, admitted>>

\* JSON.parse of the arguments throws: the catch of the handler answers
WidgetParseError ==
  /\ pc = "act"
  /\ req.endpoint = "widget"
  /\ HasToolCalls(llm)
  /\ ~Tc.wellFormed
  /\ Reply(<<>>, Json(500, FALSE))
  /\ UNCHANGED <<req, history, llm, attempts, acted, preview, nreq, mutTotal>>
  /\ UNCHANGED <<svcIn, svcOut, degraded, store, upd, clock, limits, mw, admitted>>

\* a mutating tool: details through the Google client, confirmation
WidgetConfirm ==
  /\ Acting("widget")
  /\ WidgetIsMutating(Tc.name)
  /\ \E found \in BOOLEAN, fails \in BOOLEAN :
       LET ed == GoogleEventDetails(Tc.name, Tc.args, req.creds, found /\ ~fails)
           p == Preview(Tc.name, Tc.args, ed.details, None, None)
       IN /\ preview' = Some(p)
          /\ degraded' = Noted(fails, ed.calls)
          /\ Reply(ed.calls, [Json(200, TRUE) EXCEPT !.needsConfirmation = TRUE, !.action = Some(p)])
  /\ acted' = Append(acted, Acted(Tc, "previewed"))
  /\ UNCHANGED <<req, history, llm, attempts, nreq, mutTotal>>
  /\ UNCHANGED <<svcIn, svcOut, store, upd, clock, limits, mw, admitted>>

\* a read-only tool: executed, its result appended, the loop continues
WidgetExecRead ==
  /\ Acting("widget")
  /\ ~WidgetIsMutating(Tc.name)
  /\ WidgetIsRead(Tc.name)
  /\ LET calls == ExecuteTool(Tc, req.creds)
     IN /\ Working(calls)
        /\ mutTotal' = mutTotal + CountMutations(calls)
  /\ history' = history \o <<AssistantToolCalls(llm.toolCalls), ToolTurn(Tc.id, "result")>>
  /\ acted' = Append(acted, Acted(Tc, "executed"))
  /\ pc' = "loop"
  /\ UNCHANGED <<req, llm, attempts, preview, nreq>>
  /\ UNCHANGED <<svcIn, svcOut, degraded, store, upd, clock, limits, mw, admitted>>

Next ==
  \/ ReceiveExecute
  \/ ReceiveDialogue
  \/ Replay
  \/ Execute
  \/ Finish
  \/ StreamInput
  \/ FetchContextToday
  \/ FetchContextRecent
  \/ Resolve
  \/ StreamResolveFailed
  \/ StreamParseError
  \/ StreamClarify
  \/ StreamExecRead
  \/ StreamResolveAgain
  \/ StreamPreviewChained
  \/ StreamPreview
  \/ StreamLog
  \/ CommandInput
  \/ CommandResolveFailed
  \/ CommandParseError
  \/ CommandClarify
  \/ CommandExecRead
  \/ CommandResolveAgain
  \/ CommandPreview
  \/ WidgetInput
  \/ WidgetResolve
  \/ WidgetGiveUp
  \/ WidgetNoTool
  \/ WidgetParseError
  \/ WidgetConfirm
  \/ WidgetExecRead

Spec == Init /\ [][Next]_vars

\* ================================================================ claims
Dialogue == req.endpoint \in {"command", "stream", "widget"}
IsTerminal(f) == f.type \in {"response", "error"}
\* the answer of a served request: the last SSE frame, or the JSON response
Answer == IF req.endpoint = "stream" THEN frames[Len(frames)] ELSE Val(resp)
LastActed == acted[Len(acted)]
\* the answer reports a failure of the request itself
AnswerIsError == IF req.endpoint = "stream" THEN Answer.type = "error" ELSE ~Val(resp).success
\* the resolver response held is one with a well-formed mutating first tool call
HoldsMutatingCall ==
  /\ llm.success
  /\ HasToolCalls(llm)
  /\ Tc.wellFormed
  /\ Tc.name \in MutatingTools
\* calls to the calendar service or to a provider adapter
AdapterCalls(s) ==
  {i \in 1..Len(s) : s[i].ev = "call" /\ s[i].target \in {"service", "google", "outlook", "googleApi", "graph"}}
\* the action of the /execute request passes the validation of its type
ExecuteAccepts ==
  /\ Truthy(req.action)
  /\ Val(req.action).type \in MutatingTools
  /\ ExecuteDispatch(Val(req.action), req.creds, T0).status = 200

\* C1 (as stated): whenever the resolver returned a mutating tool call, the
\* request is answered with needsConfirmation: true and no mutation method
\* of the calendar service was invoked.
C1_AlwaysNeedsConfirmation ==
  (pc = "done" /\ Dialogue /\ HoldsMutatingCall)
    => (Answer.needsConfirmation /\ CountMutations(trace) = 0)

\* C1 (amended): a dialogue request never invokes a mutation method, whatever
\* the resolver returns; a mutating tool call it acts on is previewed and
\* answered with needsConfirmation: true and that preview, or - only for
\* create_calendar_event - answered with needsClarification: true and no
\* preview; mutation methods are invoked only by /execute with confirmed true.
C1_NoMutationBeforeConfirmation ==
  /\ Dialogue => (CountMutations(trace) = 0 /\ ProviderMutations(trace) = 0)
  /\ CountMutations(trace) > 0 => (req.endpoint = "execute" /\ req.confirmed)
  /\ \A i \in 1..Len(acted) :
       acted[i].name \in MutatingTools =>
         /\ acted[i].how \in {"previewed", "clarified"}
         /\ acted[i].how = "clarified" => acted[i].name = "create_calendar_event"
  /\ (pc = "done" /\ Dialogue /\ acted # <<>> /\ LastActed.name \in MutatingTools) =>
       IF LastActed.how = "previewed"
       THEN Answer.needsConfirmation /\ Answer.action = preview /\ Truthy(preview)
       ELSE Answer.needsClarification /\ ~Answer.needsConfirmation /\ Answer.action = None

C1_Witness ==
  /\ pc = "done"
  /\ req.endpoint = "stream"
  /\ acted # <<>>
  /\ LastActed.name = "delete_task"
  /\ LastActed.how = "previewed"
  /\ Answer.needsConfirmation

\* C2: an /execute request with an action and confirmed = false is answered
\* {success: true, cancelled: true} and calls no adapter, for every action type.
C2_CancelHasNoSideEffect ==
  (pc = "done" /\ req.endpoint = "execute" /\ Truthy(req.action) /\ ~req.confirmed)
    => /\ Val(resp).status = 200
       /\ Val(resp).success
       /\ Val(resp).cancelled
       /\ AdapterCalls(trace) = {}
       /\ mutTotal = 0

C2_Witness ==
  /\ pc = "done"
  /\ req.endpoint = "execute"
  /\ Truthy(req.action)
  /\ ~req.confirmed
  /\ Val(req.action).type = "delete_calendar_event"
  /\ Val(resp).cancelled

\* C3: of a resolver response with two or more tool calls only the first is
\* acted on: every tool call executed or previewed is the first of its
\* response, the preview is never that of a later tool call, every service
\* read made for a tool belongs to an executed first tool call, and no
\* mutation method is invoked for a later one.
C3_OnlyFirstToolCall ==
  Dialogue =>
    /\ \A i \in 1..Len(acted) : acted[i].id % 10 = 1
    /\ Truthy(preview) => Val(preview).args.targetId # Some("e2")
    /\ Cardinality({i \in 1..Len(trace) : trace[i].target = "service" /\ trace[i].why = "tool"})
         = Cardinality({i \in 1..Len(acted) : acted[i].how = "executed"})
    /\ CountMutations(trace) = 0

C3_Witness ==
  /\ pc = "done"
  /\ req.endpoint = "command"
  /\ Len(llm.toolCalls) >= 2
  /\ acted # <<>>
  /\ LastActed.id = Tc.id
  /\ LastActed.how = "previewed"

\* C4: k identical /execute requests with confirmed = true and an action that
\* passes validation invoke a mutation method of the calendar service exactly
\* k times, one per request, and the adapter of the selected provider once per
\* request when its credential is present.
C4_ExecuteNotIdempotent ==
  (req.endpoint = "execute" /\ req.confirmed /\ ExecuteAccepts) =>
    /\ pc = "start" => mutTotal = nreq - 1
    /\ pc = "done" =>
         /\ mutTotal = nreq
         /\ CountMutations(trace) = 1
         /\ ProviderMutations(trace) =
              (IF TokenFor(Val(req.action).args.calendar, req.creds) THEN 1 ELSE 0)

C4_Witness ==
  /\ pc = "done"
  /\ req.endpoint = "execute"
  /\ req.confirmed
  /\ ExecuteAccepts
  /\ nreq >= 2
  /\ mutTotal = nreq
  /\ Val(resp).success

\* C5: a read tool (list_calendar_events, list_tasks) acted on by /command or
\* /stream is executed, never previewed for confirmation, and when nothing is
\* chained after it the request is answered with executed: true after
\* exactly one more resolution.
C5_ReadToolsExecuteImmediately ==
  (req.endpoint \in {"command", "stream"}) =>
    \A i \in 1..Len(acted) :
      acted[i].name \in ReadTools =>
        /\ acted[i].how = "executed"
        /\ (pc = "done" /\ Len(acted) = 1) =>
             (~AnswerIsError => Answer.executed /\ ~Answer.needsConfirmation /\ attempts = 2)

\* C6: when the re-invocation after a read yields a mutating tool call, the
\* request is not answered with executed: true but with the needsConfirmation
\* preview of that call.
C6_ChainedMutationIsPreviewed ==
  (pc = "done" /\ req.endpoint \in {"command", "stream"} /\ attempts = 2 /\ HoldsMutatingCall)
    => /\ ~Answer.executed
       /\ Answer.needsConfirmation
       /\ Truthy(Answer.action)
       /\ Val(Answer.action).type = Tc.name

\* C7: a create_calendar_event tool call that /command or /stream turns into
\* a response, directly or chained after a read, whose attendees are missing,
\* empty or contain an invalid email is answered with needsClarification:
\* true and no preview.
C7_InvalidAttendeesAreClarified ==
  (pc = "done" /\ req.endpoint \in {"command", "stream"} /\ HoldsMutatingCall
   /\ acted # <<>> /\ LastActed.id = Tc.id
   /\ Tc.name = "create_calendar_event" /\ CreateNeedsClarification(Tc.args))
    => /\ Answer.needsClarification
       /\ ~Answer.needsConfirmation
       /\ Answer.action = None

\* a duration is declared when it is a number of minutes other than zero
DeclaredDuration(args) == Truthy(args.duration) /\ Val(args.duration) # 0

\* C8: the preview /command or /stream answers for a create_calendar_event
\* tool call without endTime carries endTime = startTime + the declared
\* duration, or + 30 minutes without one; a missing startTime is the next
\* full hour.
C8_PreviewEndTimeDefault ==
  (pc = "done" /\ req.endpoint \in {"command", "stream"} /\ HoldsMutatingCall
   /\ acted # <<>> /\ LastActed.id = Tc.id /\ Tc.name = "create_calendar_event"
   /\ Truthy(Answer.action) /\ ~Truthy(Tc.args.endTime))
    => LET p == Val(Answer.action).args
       IN /\ Truthy(p.startTime)
          /\ Truthy(p.endTime)
          /\ Val(p.endTime) = Val(p.startTime)
               + (IF DeclaredDuration(Tc.args) THEN Val(Tc.args.duration) ELSE DefaultDurationMinutes)
          /\ IF Truthy(Tc.args.startTime) THEN p.startTime = Tc.args.startTime
             ELSE \E now \in NowSet : Val(p.startTime) = NextHour(now)

\* C9: /execute with confirmed = true rejects a create_calendar_event action
\* whose attendees are missing, empty or contain an invalid email: the answer
\* is not a success and no provider adapter is called.
C9_ExecuteRevalidatesAttendees ==
  (pc = "done" /\ req.endpoint = "execute" /\ req.confirmed /\ Truthy(req.action)
   /\ Val(req.action).type = "create_calendar_event"
   /\ CreateNeedsClarification(Val(req.action).args))
    => /\ ~Val(resp).success
       /\ {i \in AdapterCalls(trace) : trace[i].target # "service"} = {}

\* C10: a /stream request writes at most one terminal frame (response or
\* error), nothing after it, and exactly one by the time it is served or the
\* connection is closed.
C10_ExactlyOneTerminalFrame ==
  req.endpoint = "stream" =>
    LET terminals == {i \in 1..Len(frames) : IsTerminal(frames[i])}
    IN /\ Cardinality(terminals) <= 1
       /\ \A i \in terminals : i = Len(frames)
       /\ (pc = "done" \/ closed) => Cardinality(terminals) = 1

C10_Witness ==
  /\ pc = "done"
  /\ req.endpoint = "stream"
  /\ closed
  /\ Len(frames) = 2
  /\ frames[1].type = "transcription"
  /\ frames[2].needsConfirmation

\* the entries of the trace that write a terminal frame
TerminalWrites(s) ==
  {i \in 1..Len(s) : s[i].ev = "frame" /\ s[i].fn \in {"response", "error"}}

\* C11: in /stream nothing is called between the write of the terminal frame
\* and the end of the response: no call follows a terminal frame.
C11_ClosedRightAfterTerminalFrame ==
  req.endpoint = "stream" =>
    \A i \in TerminalWrites(trace) :
      \A j \in (i + 1)..Len(trace) : trace[j].ev # "call"

\* the number of answer kinds a response frame carries
AnswerKinds(f) ==
  Cardinality({k \in {"clarification", "confirmation", "executed"} :
                 \/ k = "clarification" /\ f.needsClarification
                 \/ k = "confirmation" /\ f.needsConfirmation /\ Truthy(f.action)
                 \/ k = "executed" /\ f.executed /\ Truthy(f.result)})

\* C12: in /stream a transcription frame is written only for audio input and
\* before the terminal frame, and the terminal frame is of type error, or of
\* type response with exactly one of needsClarification, needsConfirmation
\* with action, executed with result.
C12_FrameGrammar ==
  req.endpoint = "stream" =>
    \A i \in 1..Len(frames) :
      /\ frames[i].type = "transcription" =>
           /\ req.input = "audio"
           /\ \A j \in 1..Len(frames) : IsTerminal(frames[j]) => i < j
      /\ frames[i].type = "response" => AnswerKinds(frames[i]) = 1
      /\ frames[i].type \in {"transcription", "response", "error"}

\* =================================================== getEvents by itself
\* the start of an entry an adapter returns: absent, date-only (a day
\* number) or a dateTime (minutes since the epoch)
MinutesPerDay == 24 * 60
NoStart == [kind |-> "none", at |-> 0]
OnDay(d) == [kind |-> "date", at |-> d]
At(t) == [kind |-> "dateTime", at |-> t]

\* new Date(a.start?.dateTime || a.start?.date || 0)
StartInstant(e) ==
  CASE e.start.kind = "dateTime" -> e.start.at
    [] e.start.kind = "date" -> e.start.at * MinutesPerDay
    [] OTHER -> 0

\* what one adapter call comes to: a list, {success: false}, or an exception
Listed(items) == [kind |-> "ok", items |-> items]
FailedOutcome == [kind |-> "failed", items |-> <<>>]
ThrewOutcome == [kind |-> "threw", items |-> <<>>]
AdapterOutcomes ==
  { Listed(<<>>), Listed(<<At(MinutesPerDay)>>), Listed(<<OnDay(1)>>), Listed(<<NoStart>>),
    Listed(<<At(2000), At(T0)>>), FailedOutcome, ThrewOutcome }

\* the rejection is handed on instead of caught
Settle_NoCatch(outcome) == outcome

\* .catch(err => ({success: false, events: []})) on each adapter promise
Settle(outcome) == IF outcome.kind = "threw" THEN FailedOutcome ELSE outcome

\* result.success && result.events: the entries, marked with source and isTask
Marked(outcome, source, isTask) ==
  IF outcome.kind = "ok"
  THEN [i \in 1..Len(outcome.items) |->
          [source |-> source, isTask |-> isTask, k |-> i, start |-> outcome.items[i]]]
  ELSE <<>>

\* ties are put in front of the entries they tie with
Before_OrEqual(a, b) == StartInstant(a) <= StartInstant(b)

\* the comparator aStart - bStart is negative
Before(a, b) == StartInstant(a) < StartInstant(b)

RECURSIVE InsertSorted(_, _)
InsertSorted(x, s) ==
  IF s = <<>> THEN <<x>>
  ELSE IF Before(x, Head(s)) THEN <<x>> \o s
  ELSE <<Head(s)>> \o InsertSorted(x, Tail(s))

\* Array.prototype.sort with that comparator: stable
RECURSIVE SortByStart(_)
SortByStart(s) ==
  IF s = <<>> THEN <<>>
  ELSE InsertSorted(s[Len(s)], SortByStart(SubSeq(s, 1, Len(s) - 1)))

\* filters.maxResults ? slice(0, filters.maxResults) : all
Limited(s, maxResults) ==
  IF Truthy(maxResults) /\ Val(maxResults) # 0
  THEN SubSeq(s, 1, IF Val(maxResults) < Len(s) THEN Val(maxResults) ELSE Len(s))
  ELSE s

AdapterNames == {"googleEvents", "outlookEvents", "googleTasks", "outlookTasks"}

\* the adapters getEvents calls: those of every provider whose token is present
AdaptersCalled(googleToken, outlookToken, primaryCalendar) ==
  (IF googleToken THEN {"googleEvents", "googleTasks"} ELSE {}) \cup
  (IF outlookToken THEN {"outlookEvents", "outlookTasks"} ELSE {})

\* getEvents(googleToken, outlookToken, primaryCalendar, filters): o gives the
\* outcome of each adapter call
GetEvents(googleToken, outlookToken, primaryCalendar, maxResults, o) ==
  LET called == AdaptersCalled(googleToken, outlookToken, primaryCalendar)
      settled == [a \in AdapterNames |-> Settle(o[a])]
      both == googleToken /\ outlookToken
      \* single provider: an exception leaves the try block of that provider
      lost(a, b) == ~both /\ (settled[a].kind = "threw" \/ settled[b].kind = "threw")
      part(a, source, isTask, a2) ==
        IF a \in called /\ ~lost(a, a2) THEN Marked(settled[a], source, isTask) ELSE <<>>
      allEvents == part("googleEvents", "google", FALSE, "googleTasks")
                   \o part("outlookEvents", "outlook", FALSE, "outlookTasks")
                   \o part("googleTasks", "google", TRUE, "googleEvents")
                   \o part("outlookTasks", "outlook", TRUE, "outlookEvents")
  IN IF ~googleToken /\ ~outlookToken
     THEN [success |-> FALSE, events |-> <<>>, called |-> {}]
     ELSE IF both /\ \E a \in called : settled[a].kind = "threw"
     THEN [success |-> FALSE, events |-> <<>>, called |-> called]
     ELSE [success |-> TRUE, events |-> Limited(SortByStart(allEvents), maxResults), called |-> called]

MaxResultsOptions == {None, Some(0), Some(1), Some(2)}
GetEventsInputs ==
  [op : {"getEvents"}, googleToken : BOOLEAN, outlookToken : BOOLEAN, primaryCalendar : Calendars,
   maxResults : MaxResultsOptions, outcomes : [AdapterNames -> AdapterOutcomes]]

\* getEvents is called and returns
GetEventsReturns ==
  /\ svcIn.op = "getEvents"
  /\ svcOut = None
  /\ svcOut' = Some(GetEvents(svcIn.googleToken, svcIn.outlookToken, svcIn.primaryCalendar,
                              svcIn.maxResults, svcIn.outcomes))
  /\ UNCHANGED <<pc, req, history, llm, attempts, acted, preview, frames, closed, resp, trace,
                 nreq, mutTotal, svcIn, degraded, store, upd, clock, limits, mw, admitted>>

\* ========================================== checkMeetingConflict by itself
\* an entry of the events getEvents returned; start and end are optional instants
Meeting(id, isTask, start, end) == [id |-> id, isTask |-> isTask, start |-> start, end |-> end]
\* the proposed window of the inputs is [T0, T0 + 60)
FetchedPool ==
  { Meeting("before", FALSE, Some(T0 - 60), Some(T0)),
    Meeting("after", FALSE, Some(T0 + 60), Some(T0 + 120)),
    Meeting("inside", FALSE, Some(T0 + 15), Some(T0 + 30)),
    Meeting("across", FALSE, Some(T0 + 30), Some(T0 + 90)),
    Meeting("task", TRUE, Some(T0), Some(T0 + 60)),
    Meeting("e1", FALSE, Some(T0), Some(T0 + 60)),
    Meeting("open", FALSE, Some(T0 + 30), None) }
FetchedLists ==
  { <<>> } \cup { <<a>> : a \in FetchedPool } \cup { <<a, b>> : a \in FetchedPool, b \in FetchedPool }

\* the window is closed: touching the boundary counts as an overlap
Overlaps_Closed(startTime, endTime, meeting) ==
  /\ Truthy(meeting.start)
  /\ Truthy(meeting.end)
  /\ startTime <= Val(meeting.end)
  /\ endTime >= Val(meeting.start)

\* start < meetingEnd && end > meetingStart; a comparison with an invalid
\* Date (missing start or end) is false
Overlaps(startTime, endTime, meeting) ==
  /\ Truthy(meeting.start)
  /\ Truthy(meeting.end)
  /\ startTime < Val(meeting.end)
  /\ endTime > Val(meeting.start)

\* the filter that drops tasks and the event being updated
IsMeeting(event, excludeEventId) ==
  /\ ~event.isTask
  /\ ~(Truthy(excludeEventId) /\ event.id = Val(excludeEventId))

\* checkMeetingConflict, given what getEvents returned: the first meeting
\* that overlaps, or null
MeetingConflict(fetched, startTime, endTime, excludeEventId) ==
  IF ~Truthy(startTime) \/ ~Truthy(endTime) THEN None
  ELSE IF ~fetched.success THEN None
  ELSE LET hits == {i \in 1..Len(fetched.events) :
                      /\ IsMeeting(fetched.events[i], excludeEventId)
                      /\ Overlaps(Val(startTime), Val(endTime), fetched.events[i])}
       IN IF hits = {} THEN None
          ELSE Some(fetched.events[CHOOSE i \in hits : \A j \in hits : i <= j])

ConflictInputs ==
  [op : {"checkMeetingConflict"},
   fetched : [success : BOOLEAN, events : FetchedLists],
   startTime : {None, Some(T0)}, endTime : {None, Some(T0 + 60)},
   excludeEventId : {None, Some("e1")}]

\* checkMeetingConflict is called and returns
CheckMeetingConflictReturns ==
  /\ svcIn.op = "checkMeetingConflict"
  /\ svcOut = None
  /\ svcOut' = Some(MeetingConflict(svcIn.fetched, svcIn.startTime, svcIn.endTime, svcIn.excludeEventId))
  /\ UNCHANGED <<pc, req, history, llm, attempts, acted, preview, frames, closed, resp, trace,
                 nreq, mutTotal, svcIn, degraded, store, upd, clock, limits, mw, admitted>>

\* ============================================ adapter deleteEvent by itself
\* a request to the provider API made by an adapter
ApiCall(method) == [method |-> method]
\* transformFromGraphFormat: the event in the canonical (Google) shape
Canonical(eventId) == [id |-> eventId, shape |-> "canonical"]

\* outlookCalendarService.deleteEvent: the event is fetched (best effort),
\* then deleted
OutlookDeleteEvent(token, eventId, fetch, deleteOk) ==
  IF ~token \/ ~Truthy(eventId)
  THEN [success |-> FALSE, event |-> None, calls |-> <<>>]
  ELSE IF ~deleteOk
  THEN [success |-> FALSE, event |-> None, calls |-> <<ApiCall("GET"), ApiCall("DELETE")>>]
  ELSE [success |-> TRUE,
        event |-> IF fetch = "ok" THEN Some(Canonical(Val(eventId))) ELSE None,
        calls |-> <<ApiCall("GET"), ApiCall("DELETE")>>]

\* deleteEvent of the Google adapter: calendar.events.delete and nothing else
GoogleDeleteEvent(token, eventId, fetch, deleteOk) ==
  [success |-> token /\ Truthy(eventId) /\ deleteOk, event |-> None, calls |-> <<ApiCall("DELETE")>>]

AdapterDeleteEvent(provider, token, eventId, fetch, deleteOk) ==
  IF provider = "outlook"
  THEN OutlookDeleteEvent(token, eventId, fetch, deleteOk)
  ELSE GoogleDeleteEvent(token, eventId, fetch, deleteOk)

DeleteEventInputs ==
  [op : {"deleteEvent"}, provider : Calendars, token : BOOLEAN, eventId : {None, Some("e1")},
   fetch : {"ok", "notFound", "threw"}, deleteOk : BOOLEAN]

\* deleteEvent of an adapter is called and returns
DeleteEventReturns ==
  /\ svcIn.op = "deleteEvent"
  /\ svcOut = None
  /\ svcOut' = Some(AdapterDeleteEvent(svcIn.provider, svcIn.token, svcIn.eventId, svcIn.fetch, svcIn.deleteOk))
  /\ UNCHANGED <<pc, req, history, llm, attempts, acted, preview, frames, closed, resp, trace,
                 nreq, mutTotal, svcIn, degraded, store, upd, clock, limits, mw, admitted>>

\* ------------------------------------------------- normalizeEventToUTC
\* A timestamp string is [wall, zone, millis, valid]: the wall-clock minutes
\* it spells, its suffix ("Z", an offset with or without colon, or "none"),
\* whether it spells milliseconds, and whether new Date() can parse it.

\* dateTimeStr.endsWith('Z') || /[+-]\d{2}:?\d{2}$/.test(dateTimeStr)
Qualified(stamp) == stamp.zone # "none"

\* the instant is shifted to UTC and the offset is spelled again
ToISOString_KeepZone(stamp) ==
  LET offset == CASE stamp.zone = "+02:00" -> 120 [] stamp.zone = "-0500" -> -300 [] OTHER -> 0
  IN [stamp EXCEPT !.wall = stamp.wall - offset, !.millis = TRUE]

\* new Date(dateTimeStr).toISOString(): the instant in UTC, spelled with
\* milliseconds and the Z suffix
ToISOString(stamp) ==
  LET offset == CASE stamp.zone = "+02:00" -> 120 [] stamp.zone = "-0500" -> -300 [] OTHER -> 0
  IN [wall |-> stamp.wall - offset, zone |-> "Z", millis |-> TRUE, valid |-> TRUE]

\* one of the two blocks of normalizeEventToUTC, for start or for end
NormalizeTime(time) ==
  IF Truthy(time.dateTime)
  THEN IF Qualified(Val(time.dateTime)) /\ Val(time.dateTime).valid
       THEN [time EXCEPT !.dateTime = Some(ToISOString(Val(time.dateTime))), !.timeZone = Some("UTC")]
       ELSE time
  ELSE IF Truthy(time.date) THEN [time EXCEPT !.timeZone = Some("UTC")]
  ELSE time

\* if (!event) return event; then both blocks
NormalizeEventToUTC(event) ==
  IF ~Truthy(event) THEN event
  ELSE Some([start |-> NormalizeTime(Val(event).start), end |-> NormalizeTime(Val(event).end)])

NormalizeInputs ==
  LET Stamps == [wall : {T0}, zone : {"Z", "+02:00", "-0500", "none"}, millis : BOOLEAN, valid : BOOLEAN]
      Times == { [dateTime |-> Some(s), date |-> None, timeZone |-> tz] :
                   s \in Stamps, tz \in {None, Some("Europe/Paris")} }
               \cup { [dateTime |-> None, date |-> Some(1), timeZone |-> None],
                      [dateTime |-> None, date |-> None, timeZone |-> None] }
  IN { [op |-> "normalizeEventToUTC", event |-> None] }
     \cup { [op |-> "normalizeEventToUTC", event |-> Some([start |-> st, end |-> en])] :
              st \in Times, en \in Times }

\* normalizeEventToUTC is applied to a raw event, and again to its result
NormalizeReturns ==
  /\ svcIn.op = "normalizeEventToUTC"
  /\ svcOut = None
  /\ svcOut' = Some([once |-> NormalizeEventToUTC(svcIn.event),
                     twice |-> NormalizeEventToUTC(NormalizeEventToUTC(svcIn.event))])
  /\ UNCHANGED <<pc, req, history, llm, attempts, acted, preview, frames, closed, resp, trace,
                 nreq, mutTotal, svcIn, degraded, store, upd, clock, limits, mw, admitted>>

\* ------------------------------------------------- the Google task adapter
\* An account is the sequence of its task lists, in the order tasklists.list
\* returns them; a list is [id, tasks], tasks being the ids it holds.

\* getTasks: the tasks of the first ten lists, each transformed to a record
\* that carries the task's id and no list id
GoogleGetTasks(token, lists) ==
  IF ~token THEN [success |-> FALSE, tasks |-> {}]
  ELSE [success |-> TRUE,
        tasks |-> { [id |-> t, isTask |-> TRUE] :
                      t \in UNION { lists[i].tasks : i \in { j \in 1..Len(lists) : j <= 10 } } }]

\* let listId = taskListId; if (!listId) the first list of tasklists.list({ maxResults: 1 })
TaskListFor(lists, taskListId) ==
  IF Truthy(taskListId) THEN taskListId
  ELSE IF Len(lists) = 0 THEN None
  ELSE Some(lists[1].id)

\* updateTask and deleteTask: the list is chosen, then tasks.get and the write
\* address the task in that list; the API knows the task only in the list
\* that holds it
GoogleTaskMutation(fn, token, lists, taskId, taskListId) ==
  LET listId == TaskListFor(lists, taskListId)
      held == \E i \in 1..Len(lists) : lists[i].id = Val(listId) /\ Val(taskId) \in lists[i].tasks
  IN IF ~token THEN [success |-> FALSE, error |-> "Access token is required", addressed |-> None]
     ELSE IF ~Truthy(taskId) THEN [success |-> FALSE, error |-> "Task ID is required", addressed |-> None]
     ELSE IF ~Truthy(listId) THEN [success |-> FALSE, error |-> "No task lists available", addressed |-> None]
     ELSE IF held THEN [success |-> TRUE, error |-> "none", addressed |-> listId]
     ELSE [success |-> FALSE,
           error |-> IF fn = "updateTask" THEN "Task not found" ELSE "Failed to delete task",
           addressed |-> listId]

TaskInputs ==
  LET Accounts == { <<>>,
                    << [id |-> "L1", tasks |-> {"t1"}] >>,
                    << [id |-> "L1", tasks |-> {}], [id |-> "L2", tasks |-> {"t1"}] >>,
                    << [id |-> "L1", tasks |-> {"t1"}], [id |-> "L2", tasks |-> {"t2"}] >> }
  IN [op : {"taskMutation"}, fn : {"updateTask", "deleteTask"}, token : BOOLEAN, lists : Accounts,
      taskId : {None, Some("t1"), Some("t2")}, taskListId : {None, Some("L2")}]

\* getTasks is called, then updateTask or deleteTask with a task id
TaskMutationReturns ==
  /\ svcIn.op = "taskMutation"
  /\ svcOut = None
  /\ svcOut' = Some([read |-> GoogleGetTasks(svcIn.token, svcIn.lists),
                     result |-> GoogleTaskMutation(svcIn.fn, svcIn.token, svcIn.lists,
                                                   svcIn.taskId, svcIn.taskListId)])
  /\ UNCHANGED <<pc, req, history, llm, attempts, acted, preview, frames, closed, resp, trace,
                 nreq, mutTotal, svcIn, degraded, store, upd, clock, limits, mw, admitted>>

\* ------------------------------------------- the functions, one call each
ServiceInit ==
  /\ pc = "idle"
  /\ req = [endpoint |-> "execute", input |-> "none", creds |-> CHOOSE c \in CredentialSets : TRUE,
            history |-> <<>>, action |-> None, confirmed |-> FALSE]
  /\ history = <<>>
  /\ llm = NoLlm
  /\ attempts = 0
  /\ acted = <<>>
  /\ preview = None
  /\ frames = <<>>
  /\ closed = FALSE
  /\ resp = None
  /\ trace = <<>>
  /\ nreq = 0
  /\ mutTotal = 0
  /\ svcIn \in GetEventsInputs \cup ConflictInputs \cup DeleteEventInputs \cup NormalizeInputs \cup TaskInputs
  /\ svcOut = None
  /\ degraded = {}
  /\ store = None
  /\ upd = <<>>
  /\ clock = 1
  /\ limits = None
  /\ mw = <<>>
  /\ admitted = <<>>

ServiceNext ==
  \/ GetEventsReturns
  \/ CheckMeetingConflictReturns
  \/ DeleteEventReturns
  \/ NormalizeReturns
  \/ TaskMutationReturns

ServiceSpec == ServiceInit /\ [][ServiceNext]_vars

Returned(op) == svcIn.op = op /\ Truthy(svcOut)

\* what an adapter that answered with a list returned, as marked entries
Supplied(outcome, source, isTask) ==
  IF outcome.kind = "ok"
  THEN {[source |-> source, isTask |-> isTask, k |-> i, start |-> outcome.items[i]] :
          i \in 1..Len(outcome.items)}
  ELSE {}
\* the entries the four adapters supplied
SuppliedAll(o) ==
  Supplied(o["googleEvents"], "google", FALSE) \cup Supplied(o["outlookEvents"], "outlook", FALSE)
  \cup Supplied(o["googleTasks"], "google", TRUE) \cup Supplied(o["outlookTasks"], "outlook", TRUE)
HasMaxResults == Truthy(svcIn.maxResults) /\ Val(svcIn.maxResults) > 0

\* C13: in a combined read (both credentials present) getEvents returns
\* success: true whatever adapters fail; without truncation its events are
\* exactly the entries of the adapters that answered with a list, and with
\* truncation they are among those entries.
C13_PartialFailureTolerated ==
  (Returned("getEvents") /\ svcIn.googleToken /\ svcIn.outlookToken) =>
    LET out == Val(svcOut)
        got == {out.events[i] : i \in 1..Len(out.events)}
    IN /\ out.success
       /\ got \subseteq SuppliedAll(svcIn.outcomes)
       /\ Len(out.events) = Cardinality(got)
       /\ ~HasMaxResults => got = SuppliedAll(svcIn.outcomes)

C13_Witness ==
  /\ Returned("getEvents")
  /\ svcIn.googleToken /\ svcIn.outlookToken
  /\ svcIn.outcomes["outlookEvents"].kind = "threw"
  /\ svcIn.outcomes["outlookTasks"].kind = "failed"
  /\ svcIn.outcomes["googleEvents"] = Listed(<<At(2000), At(T0)>>)
  /\ svcIn.maxResults = None
  /\ Len(Val(svcOut).events) >= 2

\* the instant an entry starts at: a date-only start is midnight of its day
InstantOf(e) ==
  IF e.start.kind = "dateTime" THEN e.start.at
  ELSE IF e.start.kind = "date" THEN e.start.at * 24 * 60 ELSE 0
\* the position of an entry in the merge: Google events, Outlook events,
\* Google tasks, Outlook tasks, each in the order its adapter returned
MergeRank(e) ==
  10 * (CASE e.source = "google" /\ ~e.isTask -> 1
          [] e.source = "outlook" /\ ~e.isTask -> 2
          [] e.source = "google" /\ e.isTask -> 3
          [] OTHER -> 4) + e.k
ComesFirst(a, b) ==
  InstantOf(a) < InstantOf(b) \/ (InstantOf(a) = InstantOf(b) /\ MergeRank(a) < MergeRank(b))

\* C14: the events getEvents returns are sorted by start instant ascending,
\* date-only entries compared as midnight and equal starts in merge order;
\* with maxResults they are the first maxResults entries of that order,
\* without it all merged entries.
C14_SortedAndTruncated ==
  (Returned("getEvents") /\ Val(svcOut).success) =>
    LET ev == Val(svcOut).events
        got == {ev[i] : i \in 1..Len(ev)}
        merged == {e \in SuppliedAll(svcIn.outcomes) :
                     \/ e.source = "google" /\ svcIn.googleToken
                     \/ e.source = "outlook" /\ svcIn.outlookToken}
        n == Cardinality(merged)
    IN /\ \A i \in 1..Len(ev), j \in 1..Len(ev) : i < j => ComesFirst(ev[i], ev[j])
       /\ got \subseteq merged
       /\ \A e \in got, m \in merged \ got : ComesFirst(e, m)
       /\ Len(ev) = (IF HasMaxResults /\ Val(svcIn.maxResults) < n THEN Val(svcIn.maxResults) ELSE n)

C14_Witness ==
  /\ Returned("getEvents")
  /\ svcIn.googleToken /\ svcIn.outlookToken
  /\ svcIn.outcomes["googleEvents"] = Listed(<<At(2000), At(T0)>>)
  /\ svcIn.outcomes["outlookEvents"] = Listed(<<OnDay(1)>>)
  /\ svcIn.outcomes["googleTasks"] = Listed(<<At(MinutesPerDay)>>)
  /\ svcIn.maxResults = Some(2)
  /\ Len(Val(svcOut).events) = 2
  /\ Val(svcOut).events[2].start = OnDay(1)

\* C15: when primaryCalendar names a provider, getEvents calls the adapters
\* of that provider only, also with both credentials present.
C15_OnlySelectedProviderQueried ==
  Returned("getEvents") =>
    \A a \in Val(svcOut).called :
      IF svcIn.primaryCalendar = "google" THEN a \in {"googleEvents", "googleTasks"}
      ELSE a \in {"outlookEvents", "outlookTasks"}

\* the event qualifies as a conflict with the window [startTime, endTime)
Conflicting(e) ==
  /\ ~e.isTask
  /\ svcIn.excludeEventId # Some(e.id)
  /\ e.start # None /\ e.end # None
  /\ Val(svcIn.startTime) < Val(e.end)
  /\ Val(svcIn.endTime) > Val(e.start)
Touching(e) ==
  /\ e.start # None /\ e.end # None
  /\ (Val(e.start) = Val(svcIn.endTime) \/ Val(e.end) = Val(svcIn.startTime))

\* C17: checkMeetingConflict returns the first fetched event that is not a
\* task, is not the excluded event and overlaps the half-open window, and
\* null when there is none; an event that only touches the boundary of the
\* window is never returned.
C17_FirstHalfOpenOverlap ==
  (Returned("checkMeetingConflict") /\ svcIn.fetched.success
   /\ Truthy(svcIn.startTime) /\ Truthy(svcIn.endTime)) =>
    LET ev == svcIn.fetched.events
        out == Val(svcOut)
    IN /\ (\A i \in 1..Len(ev) : ~Conflicting(ev[i])) => out = None
       /\ \A i \in 1..Len(ev) :
            (Conflicting(ev[i]) /\ \A j \in 1..(i - 1) : ~Conflicting(ev[j])) => out = Some(ev[i])
       /\ Truthy(out) => ~Touching(Val(out))

C17_Witness ==
  /\ Returned("checkMeetingConflict")
  /\ svcIn.fetched.success
  /\ svcIn.startTime = Some(T0) /\ svcIn.endTime = Some(T0 + 60)
  /\ Len(svcIn.fetched.events) = 2
  /\ svcIn.fetched.events[1].id = "before"
  /\ svcIn.fetched.events[2].id = "across"
  /\ Truthy(Val(svcOut))
  /\ Val(Val(svcOut)).id = "across"

\* C20: deleteEvent of every event adapter fetches the event before it
\* issues the delete call, and on success returns the fetched event in
\* canonical form.
C20_DeleteFetchesFirst ==
  Returned("deleteEvent") =>
    LET out == Val(svcOut)
        deletes == {i \in 1..Len(out.calls) : out.calls[i].method = "DELETE"}
    IN /\ \A i \in deletes : \E j \in 1..(i - 1) : out.calls[j].method = "GET"
       /\ (out.success /\ svcIn.fetch = "ok") => out.event = Some(Canonical(Val(svcIn.eventId)))

\* C16: with both provider credentials present, a mutation whose action
\* names no provider is rejected: the answer is not a success and no
\* provider adapter is called.
C16_SelectorRequired ==
  (pc = "done" /\ req.endpoint = "execute" /\ req.confirmed /\ Truthy(req.action)
   /\ req.creds.google /\ req.creds.outlook
   /\ Val(req.action).type \in MutatingTools
   /\ Val(req.action).args.calendar \notin Calendars)
    => /\ ~Val(resp).success
       /\ ProviderMutations(trace) = 0

\* the conflict detector was invoked by this request
ConflictChecked == \E i \in 1..Len(trace) : trace[i].ev = "call" /\ trace[i].why = "conflict"

\* C18: when /command or /stream builds a preview, the conflict detector is
\* invoked for every create_calendar_event, for update_calendar_event
\* exactly when the tool call supplies startTime or endTime, and never for
\* delete or task tools.
C18_ConflictCheckedWhenTimeSet ==
  (pc = "done" /\ req.endpoint \in {"command", "stream"} /\ HoldsMutatingCall
   /\ acted # <<>> /\ LastActed.id = Tc.id /\ LastActed.how = "previewed")
    => (ConflictChecked <=>
          \/ Tc.name = "create_calendar_event"
          \/ /\ Tc.name = "update_calendar_event"
             /\ (Truthy(Tc.args.startTime) \/ Truthy(Tc.args.endTime)))


\* ------------------------------------------------ best-effort sub-steps
\* the request was served although a best-effort step of it failed
ServedDegraded == pc = "done" /\ Dialogue /\ degraded # {}

\* C19: a failure of a best-effort sub-step (the fetch of the existing event
\* or task for the preview, the conflict check, the context fetch) never
\* makes the request an error: an error answer comes only from the resolver
\* steps after the context, a previewed call is still answered by its
\* confirmation, and the preview carries no details and a null conflict
C19_BestEffortFailureIsNotAnError ==
  ServedDegraded =>
    /\ AnswerIsError => (attempts >= 1 /\ (acted = <<>> \/ LastActed.how # "previewed"))
    /\ (acted # <<>> /\ LastActed.how = "previewed") =>
         /\ Answer.needsConfirmation
         /\ Answer.action = preview
    /\ ("preview" \in degraded) =>
         /\ Truthy(preview)
         /\ Val(preview).eventDetails = None
         /\ Val(preview).taskDetails = None
         /\ Val(preview).conflict = None

\* a /stream request whose context fetch and preview fetch both failed and
\* which is answered by the confirmation of its call
C19_Witness ==
  /\ pc = "done"
  /\ req.endpoint = "stream"
  /\ degraded = {"context", "preview"}
  /\ Answer.needsConfirmation
  /\ Val(Answer.action).eventDetails = None


\* ------------------------------------------------------ oversized audio
\* C25: on /command, /stream and /widget an audio input over the size
\* threshold is rejected and the speech-to-text collaborator is not called
C25_OversizedAudioNotTranscribed ==
  (Dialogue /\ req.input = "audio_too_large") =>
    \A i \in 1..Len(trace) : trace[i].fn # "transcribeAudio"


\* ---------------------------------------------- failure of the logging
\* the interaction log was asked for and nothing was logged: no user email,
\* or logUserEvent failed
LogFailed(s) ==
  \E i \in 1..Len(s) :
    /\ s[i].fn = "recordInteractionLog"
    /\ \/ i = Len(s)
       \/ s[i + 1].fn # "logUserEvent"
       \/ s[i + 1].data = Some([failed |-> TRUE])

\* C26: a failure of the interaction log never changes the primary response
\* of /command, /stream or /execute: the log is asked for only once a
\* successful answer is decided, and that answer is the one delivered, the
\* cancellation, the confirmation with its preview, or the plain success
C26_LogFailureKeepsResponse ==
  (pc = "done" /\ req.endpoint \in {"command", "stream", "execute"} /\ LogFailed(trace)) =>
    /\ ~AnswerIsError
    /\ req.endpoint = "stream" => (closed /\ Cardinality({i \in 1..Len(frames) : IsTerminal(frames[i])}) = 1)
    /\ req.endpoint # "stream" => Answer.status = 200
    /\ req.endpoint = "execute" => (Answer.cancelled <=> ~req.confirmed)
    /\ (req.endpoint # "execute" /\ acted # <<>> /\ LastActed.how = "previewed") =>
         (Answer.needsConfirmation /\ Answer.action = preview)

\* an approved /execute whose log insert failed and which answers success
C26_Witness ==
  /\ pc = "done"
  /\ req.endpoint = "execute"
  /\ req.confirmed
  /\ \E i \in 1..Len(trace) : trace[i].fn = "logUserEvent" /\ trace[i].data = Some([failed |-> TRUE])
  /\ Answer.success


\* ---------------------------------------------- history of a confirmation
\* C28: every needsConfirmation response carries the updated history: the
\* caller's history as a prefix, then the user turn, the assistant tool-call
\* turn and the pending tool turn
C28_ConfirmationReturnsHistory ==
  (pc = "done" /\ Dialogue /\ ~AnswerIsError /\ Answer.needsConfirmation) =>
    /\ "history" \in DOMAIN Answer
    /\ Truthy(Answer.history)
    /\ LET h == Val(Answer.history)
           n == Len(req.history)
       IN /\ Len(h) = n + 3
          /\ SubSeq(h, 1, n) = req.history
          /\ h[n + 1] = UserTurn
          /\ h[n + 2] = AssistantToolCalls(llm.toolCalls)
          /\ h[n + 3] = ToolTurn(Tc.id, "pending_confirmation")


\* ------------------------------------------------ failure of the resolver
\* C29: when an invocation of the resolver fails in a request, the first
\* one or the one after a read tool, the request ends with a failure
\* response and never with executed or needsConfirmation
C29_ResolverFailureIsAnError ==
  (pc = "done" /\ Dialogue /\ attempts >= 1 /\ ~llm.success) =>
    /\ AnswerIsError
    /\ ~Answer.executed
    /\ ~Answer.needsConfirmation


\* --------------------------------------------------- the context reads
\* the context read named why has been issued
ContextIssued(why) == \E i \in 1..Len(trace) : trace[i].fn = "getEvents" /\ trace[i].why = why

\* C27: the two context reads of a request are issued concurrently, both
\* started before either completes, and a failure of one leaves the other
\* in use: in every state where the agenda read has returned (each step of
\* the handler ends at an await that has returned), the recent-contacts
\* read has been issued too
C27_ContextReadsConcurrent ==
  (req.endpoint \in {"command", "stream"} /\ ContextIssued("context_today")) =>
    ContextIssued("context_recent")


\* ------------------------------------------------------ start before end
\* both times are present and the end is before the start
EndsBeforeStart(r) ==
  /\ Truthy(r.startTime)
  /\ Truthy(r.endTime)
  /\ Val(r.endTime) < Val(r.startTime)

\* C24: every create_calendar_event preview, and every event /execute hands
\* to createEvent, has startTime <= endTime
C24_StartNotAfterEnd ==
  /\ (Truthy(preview) /\ Val(preview).type = "create_calendar_event") => ~EndsBeforeStart(Val(preview).args)
  /\ \A i \in 1..Len(trace) :
       (trace[i].fn = "createEvent" /\ Truthy(trace[i].data)) => ~EndsBeforeStart(Val(trace[i].data))


\* ------------------------------------------------------- normalization
\* C23: for a raw event whose start and end carry a timezone-qualified
\* timestamp, normalizing the normalized event changes nothing
C23_NormalizeIdempotent ==
  (/\ Returned("normalizeEventToUTC")
   /\ Truthy(svcIn.event)
   /\ \A t \in {Val(svcIn.event).start, Val(svcIn.event).end} :
        Truthy(t.dateTime) /\ Qualified(Val(t.dateTime)))
  => Val(svcOut).twice = Val(svcOut).once

\* an event with an offset start and an offset end, which the first
\* normalization rewrote
C23_Witness ==
  /\ Returned("normalizeEventToUTC")
  /\ Truthy(svcIn.event)
  /\ Truthy(Val(svcIn.event).start.dateTime)
  /\ Truthy(Val(svcIn.event).end.dateTime)
  /\ Val(Val(svcIn.event).start.dateTime).zone = "+02:00"
  /\ Val(Val(svcIn.event).start.dateTime).valid
  /\ Val(Val(svcIn.event).end.dateTime).zone = "-0500"
  /\ Val(Val(svcIn.event).end.dateTime).valid
  /\ Val(svcOut).once # svcIn.event
  /\ Val(Val(Val(svcOut).once).start.dateTime).wall = T0 - 120
  /\ Val(svcOut).twice = Val(svcOut).once


\* ------------------------------------------------ adapters: updateEvent
\* Two updateEvent calls of one adapter run on the same stored event; each
\* step is one request to the provider, so the calls interleave at the awaits.
UpdateFields == {"summary", "description", "startTime", "endTime", "attendees"}

\* the event as the provider stores it before the calls: every field holds 0
Stored0 == [f \in UpdateFields |-> Some(0)]

\* the eventData of call r: the fields in given are supplied, with value r
EventDataOf(r, given) == [f \in UpdateFields |-> IF f \in given THEN Some(r) ELSE None]

\* the payload carries the supplied fields only
OutlookPayload_OnlySupplied(eventData, existingEvent) == eventData

\* the PATCH payload of the Outlook adapter: subject, body and attendees when
\* supplied; start and end both as soon as one of them is supplied, the
\* other one taken from the event read before
OutlookPayload(eventData, existingEvent) ==
  [f \in UpdateFields |->
     IF f \in {"startTime", "endTime"}
     THEN IF Truthy(eventData.startTime) \/ Truthy(eventData.endTime)
          THEN (IF Truthy(eventData[f]) THEN eventData[f] ELSE existingEvent[f])
          ELSE None
     ELSE eventData[f]]

\* the resource of the Google adapter: the five fields of eventData as they
\* are, the fields not supplied undefined
GoogleResource(eventData) == [f \in UpdateFields |-> eventData[f]]

\* what the provider stores after the request: PATCH replaces the fields of
\* the payload, events.update replaces the whole event
StoredAfter(provider, stored, payload) ==
  IF provider = "outlook"
  THEN [f \in UpdateFields |-> IF Truthy(payload[f]) THEN payload[f] ELSE stored[f]]
  ELSE payload

\* Outlook: the existing event is read; !getResponse.ok throws, and the catch
\* of the function returns {success: false}
UpdateFetch(r) ==
  /\ upd[r].pc = "start"
  /\ upd[r].provider = "outlook"
  /\ \E ok \in BOOLEAN :
       upd' = [upd EXCEPT ![r] = IF ok THEN [@ EXCEPT !.pc = "write", !.existing = Some(store)]
                                  ELSE [@ EXCEPT !.pc = "done", !.fetchFailed = TRUE]]
  /\ UNCHANGED <<pc, req, history, llm, attempts, acted, preview, frames, closed, resp, trace,
                 nreq, mutTotal, svcIn, svcOut, degraded, store, clock, limits, mw, admitted>>

\* the mutation request: PATCH by Outlook after the read, events.update by
\* Google at once; Google returns response.data, Outlook reads the event again
UpdateWrite(r) ==
  /\ \/ upd[r].pc = "write"
     \/ upd[r].pc = "start" /\ upd[r].provider = "google"
  /\ \E ok \in BOOLEAN :
       LET outlook == upd[r].provider = "outlook"
           payload == IF outlook THEN OutlookPayload(upd[r].data, Val(upd[r].existing))
                      ELSE GoogleResource(upd[r].data)
       IN /\ store' = (IF ok THEN StoredAfter(upd[r].provider, store, payload) ELSE store)
          /\ upd' = [upd EXCEPT ![r] = [@ EXCEPT !.issued = TRUE, !.written = ok,
                                                 !.pc = (IF ok /\ outlook THEN "refetch" ELSE "done"),
                                                 !.success = ok /\ ~outlook]]
  /\ UNCHANGED <<pc, req, history, llm, attempts, acted, preview, frames, closed, resp, trace,
                 nreq, mutTotal, svcIn, svcOut, degraded, clock, limits, mw, admitted>>

\* Outlook: the updated event is read and returned; a failure here makes the
\* call return {success: false} although the PATCH was applied
UpdateRefetch(r) ==
  /\ upd[r].pc = "refetch"
  /\ \E ok \in BOOLEAN : upd' = [upd EXCEPT ![r] = [@ EXCEPT !.pc = "done", !.success = ok]]
  /\ UNCHANGED <<pc, req, history, llm, attempts, acted, preview, frames, closed, resp, trace,
                 nreq, mutTotal, svcIn, svcOut, degraded, store, clock, limits, mw, admitted>>

AdapterInit ==
  /\ pc = "idle"
  /\ req = [endpoint |-> "execute", input |-> "none", creds |-> CHOOSE c \in CredentialSets : TRUE,
            history |-> <<>>, action |-> None, confirmed |-> FALSE]
  /\ history = <<>>
  /\ llm = NoLlm
  /\ attempts = 0
  /\ acted = <<>>
  /\ preview = None
  /\ frames = <<>>
  /\ closed = FALSE
  /\ resp = None
  /\ trace = <<>>
  /\ nreq = 0
  /\ mutTotal = 0
  /\ svcIn = [op |-> "none"]
  /\ svcOut = None
  /\ degraded = {}
  /\ clock = 1
  /\ limits = None
  /\ mw = <<>>
  /\ admitted = <<>>
  /\ store = Stored0
  /\ upd \in { [r \in 1..2 |-> [provider |-> p, data |-> EventDataOf(r, given[r]), pc |-> "start",
                               existing |-> None, fetchFailed |-> FALSE, issued |-> FALSE,
                               written |-> FALSE, success |-> FALSE]] :
                 p \in Calendars, given \in [1..2 -> SUBSET UpdateFields] }

AdapterNext ==
  \/ \E r \in 1..2 : UpdateFetch(r)
  \/ \E r \in 1..2 : UpdateWrite(r)
  \/ \E r \in 1..2 : UpdateRefetch(r)

AdapterSpec == AdapterInit /\ [][AdapterNext]_vars

\* C21: when the fetch of the existing object before an update or a delete
\* fails, the adapter does not abort: it still issues the mutation request
C21_FetchFailureStillMutates ==
  \A r \in 1..2 : (upd[r].pc = "done" /\ upd[r].fetchFailed) => upd[r].issued

\* C22: after an update that supplies only some fields, every field that
\* was not supplied is stored as it was before, for every adapter (an update
\* that ran alone, the other call not started)
C22_UpdateKeepsUnsuppliedFields ==
  \A r \in 1..2 :
    (upd[r].written /\ upd[3 - r].pc = "start") =>
      \A f \in UpdateFields : ~Truthy(upd[r].data[f]) => store[f] = Stored0[f]

\* call 1 changes only startTime, call 2 only endTime, on Outlook, and both
\* read the event before either wrote it
RacingUpdates ==
  /\ upd[1].provider = "outlook"
  /\ upd[1].data = EventDataOf(1, {"startTime"})
  /\ upd[2].data = EventDataOf(2, {"endTime"})
  /\ \A r \in 1..2 : upd[r].existing = Some(Stored0) /\ upd[r].written

\* C30: the update is an unguarded read-modify-write: when the two calls
\* both read before either writes, the stored event does not contain both
\* changes once both have written
C30_ConcurrentUpdatesLoseOne ==
  RacingUpdates => ~(store.startTime = Some(1) /\ store.endTime = Some(2))

\* both calls returned success and the new startTime of call 1 is gone
C30_Witness ==
  /\ RacingUpdates
  /\ \A r \in 1..2 : upd[r].pc = "done" /\ upd[r].success
  /\ store.startTime = Some(0)
  /\ store.endTime = Some(2)


\* ------------------------------------------------- bounded outbound calls
\* the invocations of the resolver made by the request so far
ResolverCalls(s) == Cardinality({i \in 1..Len(s) : s[i].fn = "processWithLLM"})

\* C31: a request makes a bounded number of single-shot outbound calls:
\* /command and /stream invoke the resolver at most twice, /widget at most
\* three times, and /execute issues at most one adapter mutation
C31_BoundedOutboundCalls ==
  /\ req.endpoint \in {"command", "stream"} => ResolverCalls(trace) <= 2
  /\ req.endpoint = "widget" => ResolverCalls(trace) <= 3
  /\ req.endpoint = "execute" => ProviderMutations(trace) <= 1

\* a /widget request that used its three invocations and was answered
C31_Witness ==
  /\ pc = "done"
  /\ req.endpoint = "widget"
  /\ ResolverCalls(trace) = 3
  /\ Truthy(resp)


\* ---------------------------------------------- routing of a mutation
\* the adapter mutations of the trace, as the providers called in order
MutatedProviders(s) ==
  LET idx == {i \in 1..Len(s) : IsMutationCall(s[i]) /\ s[i].target \in Calendars}
  IN {s[i].target : i \in idx}

\* C32: a mutation dispatched by the aggregating service calls exactly one
\* adapter, Outlook when the selector is 'outlook' and Google otherwise,
\* and no adapter, answering a failure, when that provider's token is absent
C32_MutationRoutedToOneAdapter ==
  (pc = "done" /\ req.endpoint = "execute" /\ CountMutations(trace) = 1) =>
    LET calendar == Val(req.action).args.calendar
        token == IF calendar = "outlook" THEN req.creds.outlook ELSE req.creds.google
    IN IF token
       THEN /\ ProviderMutations(trace) = 1
            /\ MutatedProviders(trace) = {IF calendar = "outlook" THEN "outlook" ELSE "google"}
       ELSE /\ ProviderMutations(trace) = 0
            /\ ~Answer.success

\* an approved action for Outlook, by a user who holds both tokens, went to
\* the Outlook adapter
C32_Witness ==
  /\ pc = "done"
  /\ req.endpoint = "execute"
  /\ CountMutations(trace) = 1
  /\ Val(req.action).args.calendar = "outlook"
  /\ req.creds.google /\ req.creds.outlook
  /\ MutatedProviders(trace) = {"outlook"}


\* ------------------------------------------- tool calls and tool turns
\* every tool-call id of an assistant turn of h has a tool turn of that id
ToolCallsAnswered(h) ==
  \A i \in 1..Len(h) :
    \A k \in 1..Len(h[i].toolCalls) :
      \E j \in 1..Len(h) : h[j].role = "tool" /\ h[j].toolCallId = h[i].toolCalls[k]

\* C35: in every history sent to the resolver (the history held when the
\* resolver is about to be invoked) or returned to the caller, each
\* tool-call id of an assistant turn has a matching tool turn, also when
\* the resolver returned more than one tool call
C35_ToolCallsHaveToolTurns ==
  /\ (Dialogue /\ pc \in {"resolve", "resolve2", "loop"}) => ToolCallsAnswered(history)
  /\ (Dialogue /\ pc = "done" /\ req.endpoint = "command" /\ Truthy(Answer.history)) =>
       ToolCallsAnswered(Val(Answer.history))


\* ------------------------------------------------ the pending tool turn
\* C36: the returned history holds a pending_confirmation tool turn only
\* when the request ends with needsConfirmation; a request that ends with
\* needsClarification returns a history without one
C36_PendingTurnOnlyWithConfirmation ==
  (pc = "done" /\ req.endpoint = "command" /\ Truthy(Answer.history)) =>
    LET h == Val(Answer.history)
    IN (\E i \in 1..Len(h) : h[i].role = "tool" /\ h[i].status = "pending_confirmation")
       => Answer.needsConfirmation


\* ------------------------------------------- provider of the event details
\* C37: the eventDetails of an update or delete preview come from the
\* provider the tool call's calendar selector names, the provider /execute
\* routes the mutation to
C37_DetailsFromSelectedProvider ==
  (/\ Truthy(preview)
   /\ Val(preview).type \in {"update_calendar_event", "delete_calendar_event"}
   /\ Truthy(Val(preview).eventDetails))
  => Val(Val(preview).eventDetails) =
       (IF Val(preview).args.calendar = "outlook" THEN "outlook" ELSE "google")


\* the list that holds a task the adapter returned
HoldingList(lists, taskId) ==
  { lists[i].id : i \in { j \in 1..Len(lists) : taskId \in lists[j].tasks } }

\* a task id that getTasks returned is passed, alone, to updateTask or deleteTask
MutatesReturnedTask ==
  /\ svcIn.op = "taskMutation"
  /\ Truthy(svcOut)
  /\ svcIn.token
  /\ svcIn.taskListId = None
  /\ Truthy(svcIn.taskId)
  /\ \E t \in Val(svcOut).read.tasks : t.id = Val(svcIn.taskId)

\* C38: every task id that getTasks returned can be updated and deleted with
\* that id: the mutation succeeds and addresses the list that holds the task
C38_ReturnedTaskIsMutable ==
  MutatesReturnedTask =>
    /\ Val(svcOut).result.success
    /\ Truthy(Val(svcOut).result.addressed)
    /\ Val(Val(svcOut).result.addressed) \in HoldingList(svcIn.lists, Val(svcIn.taskId))


\* ------------------------------------------------------- authAndRateLimit
\* Requests of one user pass through the middleware concurrently. The limits
\* document is [usage, limit, lastReset], each field optional; a day is a
\* number; mw[r] is the position of request r in the middleware, the day it
\* took for today, the result of its transaction, what it sent, and whether
\* next() was called.

MaxRequests == 2
LastDay == 2

\* let limit = 10
DefaultLimit == 10

\* a response part: a JSON body, the SSE head, an SSE frame or the end of stream
Part(ev, status, type) == [ev |-> ev, status |-> status, type |-> type]

\* the transaction admits the request and writes nothing
LimitTransaction_Free(doc, today) ==
  LET data == IF Truthy(doc) THEN Val(doc) ELSE [usage |-> None, limit |-> None, lastReset |-> None]
      limit == IF Truthy(data.limit) /\ Val(data.limit) # 0 THEN Val(data.limit) ELSE DefaultLimit
      stored == IF Truthy(data.usage) THEN Val(data.usage) ELSE 0
  IN [result |-> [exceeded |-> FALSE, usage |-> stored + 1, limit |-> limit], doc |-> doc]

\* the function run by db.runTransaction: the document is read, the counter
\* is reset when lastReset is another day than today, the limit is checked,
\* and the incremented counter is written
LimitTransaction(doc, today) ==
  LET data == IF Truthy(doc) THEN Val(doc) ELSE [usage |-> None, limit |-> None, lastReset |-> None]
      lastReset == IF Truthy(data.lastReset) THEN Val(data.lastReset) ELSE today
      limit == IF Truthy(data.limit) /\ Val(data.limit) # 0 THEN Val(data.limit) ELSE DefaultLimit
      stored == IF Truthy(data.usage) THEN Val(data.usage) ELSE 0
      usage == IF lastReset # today THEN 0 ELSE stored
  IN IF usage >= limit
     THEN [result |-> [exceeded |-> TRUE, usage |-> usage, limit |-> limit], doc |-> doc]
     ELSE [result |-> [exceeded |-> FALSE, usage |-> usage + 1, limit |-> limit],
           doc |-> Some([usage |-> Some(usage + 1), limit |-> Some(limit), lastReset |-> Some(today)])]

\* the exceeded branch answers on both transports
Rejection_Both(path) ==
  << Part("head", 200, "text/event-stream"), Part("frame", 200, "response"), Part("end", 200, ""),
     Part("json", 200, "response") >>

\* the exceeded branch: an SSE frame and the end of the stream when
\* req.path.includes('/stream'), a JSON body otherwise
Rejection(path) ==
  IF path \in {"/voice/stream"}
  THEN << Part("head", 200, "text/event-stream"), Part("frame", 200, "response"), Part("end", 200, "") >>
  ELSE << Part("json", 200, "response") >>

\* the token is verified; today is taken from the clock; an onboarding path
\* goes to its handler without a rate check (requests are numbered in the
\* order they arrive)
VerifyToken(r) ==
  /\ mw[r].pc = "start"
  /\ r > 1 => mw[r - 1].pc # "start"
  /\ \E path \in {"/voice/stream", "/voice/command", "/onboarding/status"}, valid \in BOOLEAN :
       mw' = [mw EXCEPT ![r] =
                IF ~valid THEN [@ EXCEPT !.pc = "done", !.sent = << Part("json", 401, "error") >>]
                ELSE IF path = "/onboarding/status" THEN [@ EXCEPT !.pc = "handler", !.path = path, !.next = TRUE]
                ELSE [@ EXCEPT !.pc = "verified", !.path = path, !.today = clock]]
  /\ UNCHANGED <<pc, req, history, llm, attempts, acted, preview, frames, closed, resp, trace,
                 nreq, mutTotal, svcIn, svcOut, degraded, store, upd, clock, limits, admitted>>

\* db.runTransaction commits, or fails and leaves the document as it was
RunTransaction(r) ==
  /\ mw[r].pc = "verified"
  /\ \E ok \in BOOLEAN :
       LET t == LimitTransaction(limits, mw[r].today)
       IN /\ limits' = (IF ok THEN t.doc ELSE limits)
          /\ mw' = [mw EXCEPT ![r] = [@ EXCEPT !.pc = "committed",
                                               !.result = IF ok THEN Some(t.result) ELSE None]]
  /\ UNCHANGED <<pc, req, history, llm, attempts, acted, preview, frames, closed, resp, trace,
                 nreq, mutTotal, svcIn, svcOut, degraded, store, upd, clock, admitted>>

\* after the await: 500 when the transaction threw, the rejection when the
\* limit was exceeded, next() otherwise
AfterTransaction(r) ==
  /\ mw[r].pc = "committed"
  /\ mw' = [mw EXCEPT ![r] =
              IF ~Truthy(mw[r].result) THEN [@ EXCEPT !.pc = "done", !.sent = << Part("json", 500, "error") >>]
              ELSE IF Val(mw[r].result).exceeded THEN [@ EXCEPT !.pc = "done", !.sent = Rejection(mw[r].path)]
              ELSE [@ EXCEPT !.pc = "handler", !.next = TRUE]]
  /\ admitted' = IF Truthy(mw[r].result) /\ ~Val(mw[r].result).exceeded
                 THEN [admitted EXCEPT ![mw[r].today] = @ + 1]
                 ELSE admitted
  /\ UNCHANGED <<pc, req, history, llm, attempts, acted, preview, frames, closed, resp, trace,
                 nreq, mutTotal, svcIn, svcOut, degraded, store, upd, clock, limits>>

\* the route handler answers: it executed, failed, asked for clarification
\* or cancelled; no route writes the limits document
HandlerReturns(r) ==
  /\ mw[r].pc = "handler"
  /\ \E outcome \in {"executed", "failed", "clarification", "cancelled"} :
       mw' = [mw EXCEPT ![r] = [@ EXCEPT !.pc = "done", !.handler = outcome,
                                         !.sent = << Part("json", IF outcome = "failed" THEN 500 ELSE 200, outcome) >>]]
  /\ UNCHANGED <<pc, req, history, llm, attempts, acted, preview, frames, closed, resp, trace,
                 nreq, mutTotal, svcIn, svcOut, degraded, store, upd, clock, limits, admitted>>

\* new Date() moves to the next day
Midnight ==
  /\ clock < LastDay
  /\ clock' = clock + 1
  /\ UNCHANGED <<pc, req, history, llm, attempts, acted, preview, frames, closed, resp, trace,
                 nreq, mutTotal, svcIn, svcOut, degraded, store, upd, limits, mw, admitted>>

RateInit ==
  /\ pc = "idle"
  /\ req = [endpoint |-> "execute", input |-> "none", creds |-> CHOOSE c \in CredentialSets : TRUE,
            history |-> <<>>, action |-> None, confirmed |-> FALSE]
  /\ history = <<>>
  /\ llm = NoLlm
  /\ attempts = 0
  /\ acted = <<>>
  /\ preview = None
  /\ frames = <<>>
  /\ closed = FALSE
  /\ resp = None
  /\ trace = <<>>
  /\ nreq = 0
  /\ mutTotal = 0
  /\ svcIn = [op |-> "none"]
  /\ svcOut = None
  /\ degraded = {}
  /\ store = None
  /\ upd = <<>>
  /\ clock = 1
  /\ limits \in { None,
                    Some([usage |-> None, limit |-> Some(1), lastReset |-> None]),
                    Some([usage |-> Some(1), limit |-> Some(1), lastReset |-> Some(0)]),
                    Some([usage |-> Some(1), limit |-> Some(1), lastReset |-> Some(1)]),
                    Some([usage |-> Some(0), limit |-> Some(2), lastReset |-> Some(1)]),
                    Some([usage |-> Some(DefaultLimit - 1), limit |-> Some(DefaultLimit),
                          lastReset |-> Some(1)]) }
  /\ mw = [r \in 1..MaxRequests |-> [pc |-> "start", path |-> "", today |-> 0, result |-> None,
                                     sent |-> <<>>, next |-> FALSE, handler |-> "none"]]
  /\ admitted = [d \in 0..LastDay |->
                   IF Truthy(limits) /\ Val(limits).lastReset = Some(d) THEN Val(Val(limits).usage) ELSE 0]

RateNext ==
  \/ \E r \in 1..MaxRequests : VerifyToken(r)
  \/ \E r \in 1..MaxRequests : RunTransaction(r)
  \/ \E r \in 1..MaxRequests : AfterTransaction(r)
  \/ \E r \in 1..MaxRequests : HandlerReturns(r)
  \/ Midnight

RateSpec == RateInit /\ [][RateNext]_vars


\* the user's daily limit: the stored one, 10 when none is stored
DailyLimit ==
  IF Truthy(limits) /\ Truthy(Val(limits).limit) /\ Val(limits).limit # Some(0)
  THEN Val(Val(limits).limit) ELSE DefaultLimit

\* the transaction of request r let it through
Admitted(m) == Truthy(m.result) /\ ~Val(m.result).exceeded

\* the transaction of request r found the limit reached
Rejected(m) == Truthy(m.result) /\ Val(m.result).exceeded

\* C33: for each day, whatever the interleaving of the requests, the requests
\* let through for that day are never more than the daily limit, and the
\* stored usage counter is never above the limit
C33_AdmittedWithinDailyLimit ==
  /\ \A d \in 0..LastDay : admitted[d] <= DailyLimit
  /\ Truthy(limits) /\ Truthy(Val(limits).usage) => Val(Val(limits).usage) <= DailyLimit

\* C34: a request whose transaction found usage >= limit leaves the limits
\* document as it was, never has next() called, and is answered exactly
\* once: one SSE response frame and then the end of the stream on a /stream
\* path, one JSON body on any other path
C34_RejectedIsTurnedAway ==
  [][\A r \in 1..MaxRequests :
       /\ mw[r].pc = "verified" /\ Rejected(mw'[r]) => limits' = limits
       /\ mw[r].pc = "committed" /\ Rejected(mw[r]) /\ mw'[r] # mw[r] =>
            LET sent == mw'[r].sent
                IsFrame(p) == p.ev = "frame"
                IsJson(p) == p.ev = "json"
            IN /\ limits' = limits
               /\ mw'[r].pc = "done"
               /\ ~mw'[r].next
               /\ mw'[r].handler = "none"
               /\ IF mw[r].path = "/voice/stream"
                  THEN /\ Len(SelectSeq(sent, IsFrame)) = 1
                       /\ SelectSeq(sent, IsFrame)[1].type = "response"
                       /\ sent[Len(sent)].ev = "end"
                       /\ Len(SelectSeq(sent, IsJson)) = 0
                  ELSE /\ Len(sent) = 1
                       /\ sent[1].ev = "json"
       /\ mw[r].pc = "done" => mw'[r] = mw[r]]_vars

C34_Witness ==
  \E r \in 1..MaxRequests :
    /\ mw[r].pc = "done"
    /\ Rejected(mw[r])
    /\ mw[r].path = "/voice/stream"
    /\ Len(mw[r].sent) = 3

====
